---- MODULE Spec2Model ----
(***************************************************************************)
(* Frellis Cup scoring engine: the per-hole format strategies, the match   *)
(* status trackers, the points allocator and the score-entry handlers of   *)
(* the match page, as a state machine.                                     *)
(*                                                                         *)
(* Conventions.  A JavaScript value that may be null/undefined and is a    *)
(* number otherwise is an option: None or Some(n).  A null id is NullId.   *)
(* A raw score map is a function whose domain is the set of keys present,  *)
(* so `delete per[h]` shrinks the domain.  Points are counted in halves    *)
(* (HalfPoint = 0.5, FullPoint = 1) because the integers have no 0.5.      *)
(* U+2013 and U+2014 are written EN_DASH and EM_DASH.                      *)
(*                                                                         *)
(* match, activeHole and computed are the match page of one scorer, whose   *)
(* writes reach the page again at once.  db and clients are the Firestore  *)
(* documents and the apps of several signed-in users, each with its own    *)
(* snapshot and its own writes on the way to the server.                   *)
(***************************************************************************)
EXTENDS Integers, Sequences, FiniteSets, TLC

VARIABLES match, activeHole, computed, edits, pc, arg, ret, db, clients

vars == <<match, activeHole, computed, edits, pc, arg, ret, db, clients>>

\* ------------------------------------------------------------------------
\* Values
\* ------------------------------------------------------------------------
None == <<>>

Some(v) == <<v>>

NullId == "null"

EN_DASH == "{U+2013}"

EM_DASH == "{U+2014}"

NumHoles == 18

HalfPoint == 1

FullPoint == 2

NoPoint == 0

MinGross == 1

MaxGross == 12

\* Bounds of the exploration
MaxEdits == 1

MaxDiff == 12

MaxHcp == 40

MaxRoundEdits == 3

MaxPending == 1

MaxScorerEdits == 1
\* holes that become played on a card already decided or dormie
MaxMarks == 2
\* changes of the tournament's documents while a subscription is open
MaxChanges == 2

\* a forgotten Math.abs
Mut_Abs(x) == x

Abs(x) == IF x < 0 THEN -x ELSE x

clamp(n, lo, hi) == LET m == IF hi < n THEN hi ELSE n IN IF lo > m THEN lo ELSE m

\* ------------------------------------------------------------------------
\* Scoring helpers
\* ------------------------------------------------------------------------
\* the top step placed one stroke too low
Mut_stablefordFromDiff(diff) ==
  IF diff < -3 THEN 10
  ELSE IF diff = -2 THEN 6
  ELSE IF diff = -1 THEN 3
  ELSE IF diff = 0 THEN 1
  ELSE IF diff = 1 THEN -1
  ELSE -2

stablefordFromDiff(diff) ==
  IF diff <= -3 THEN 10
  ELSE IF diff = -2 THEN 6
  ELSE IF diff = -1 THEN 3
  ELSE IF diff = 0 THEN 1
  ELSE IF diff = 1 THEN -1
  ELSE -2

Proto_stablefordFromDiff(diff) ==
  IF diff <= -3 THEN 10
  ELSE IF diff = -2 THEN 6
  ELSE IF diff = -1 THEN 3
  ELSE IF diff = 0 THEN 1
  ELSE IF diff = 1 THEN -1
  ELSE -2

\* `<` in place of `<=`: the hole ranked rem gets no extra stroke
Mut_strokesReceivedOnHole(courseHcp, holeHcpRank) ==
  LET full == courseHcp \div 18
      rem == courseHcp % 18
      extra == IF holeHcpRank < rem THEN 1 ELSE 0
  IN full + extra

strokesReceivedOnHole(courseHcp, holeHcpRank) ==
  LET full == courseHcp \div 18
      rem == courseHcp % 18
      extra == IF holeHcpRank <= rem THEN 1 ELSE 0
  IN full + extra

Proto_strokesReceivedOnHole(courseHcp, holeHcpRank) ==
  LET full == courseHcp \div 18
      rem == courseHcp % 18
      extra == IF holeHcpRank <= rem THEN 1 ELSE 0
  IN full + extra

\* strokes added instead of subtracted
Mut_netScore(gross, courseHcp, holeHcpRank) ==
  IF gross = None THEN None
  ELSE Some(gross[1] + strokesReceivedOnHole(courseHcp, holeHcpRank))

netScore(gross, courseHcp, holeHcpRank) ==
  IF gross = None THEN None
  ELSE Some(gross[1] - strokesReceivedOnHole(courseHcp, holeHcpRank))

\* ------------------------------------------------------------------------
\* Match status from hole outcomes (match play)
\* ------------------------------------------------------------------------
\* `else b += 1` in place of `else if (h.winnerSideId === sideBId) b += 1`
RECURSIVE Mut_TallyHoles(_, _, _, _, _)
Mut_TallyHoles(holes, i, sideAId, sideBId, acc) ==
  IF i > Len(holes) THEN acc
  ELSE LET h == holes[i] IN
    IF ~h.played THEN Mut_TallyHoles(holes, i + 1, sideAId, sideBId, acc)
    ELSE Mut_TallyHoles(holes, i + 1, sideAId, sideBId,
           [a |-> acc.a + (IF h.winnerSideId = sideAId THEN 1 ELSE 0),
            b |-> acc.b + (IF h.winnerSideId # sideAId THEN 1 ELSE 0),
            played |-> acc.played + 1])

\* the for-loop of matchStatusFromHoles: tallies a, b, played from hole i on
RECURSIVE TallyHoles(_, _, _, _, _)
TallyHoles(holes, i, sideAId, sideBId, acc) ==
  IF i > Len(holes) THEN acc
  ELSE LET h == holes[i] IN
    IF ~h.played THEN TallyHoles(holes, i + 1, sideAId, sideBId, acc)
    ELSE TallyHoles(holes, i + 1, sideAId, sideBId,
           [a |-> acc.a + (IF h.winnerSideId = sideAId THEN 1 ELSE 0),
            b |-> acc.b + (IF h.winnerSideId # sideAId /\ h.winnerSideId = sideBId
                           THEN 1 ELSE 0),
            played |-> acc.played + 1])

\* a closeout test that also fires at dormie
Mut_CloseoutReached(abs, remaining, played) == abs >= remaining /\ played > 0

\* the closeout test: abs > remaining && played > 0
CloseoutReached(abs, remaining, played) == abs > remaining /\ played > 0

\* the returns of matchStatusFromHoles, from the loop's tallies
matchStatusFromHoles_Result(a, b, played, sideAId, sideBId) ==
  LET remaining == NumHoles - played
      diff == a - b
      abs == Abs(diff)
      leader == IF diff > 0 THEN "A" ELSE IF diff < 0 THEN "B" ELSE "AS"
  IN
  IF CloseoutReached(abs, remaining, played) THEN
    [aHoles |-> a, bHoles |-> b, played |-> played, isFinal |-> TRUE,
     text |-> IF leader = "AS" THEN "Final (Tied)"
              ELSE "Final " \o ToString(abs) \o "&" \o ToString(remaining),
     leaderSideId |-> IF diff > 0 THEN sideAId ELSE sideBId,
     isTied |-> FALSE]
  ELSE IF played = 0 THEN
    [aHoles |-> 0, bHoles |-> 0, played |-> 0, isFinal |-> FALSE,
     text |-> "Not Started", leaderSideId |-> NullId, isTied |-> TRUE]
  ELSE IF played = NumHoles THEN
    IF diff = 0 THEN
      [aHoles |-> a, bHoles |-> b, played |-> played, isFinal |-> TRUE,
       text |-> "Final (Tied)", leaderSideId |-> NullId, isTied |-> TRUE]
    ELSE
      [aHoles |-> a, bHoles |-> b, played |-> played, isFinal |-> TRUE,
       text |-> "Final " \o ToString(abs) \o " Up",
       leaderSideId |-> IF diff > 0 THEN sideAId ELSE sideBId,
       isTied |-> FALSE]
  ELSE IF diff = 0 THEN
    [aHoles |-> a, bHoles |-> b, played |-> played, isFinal |-> FALSE,
     text |-> "AS Thru " \o ToString(played), leaderSideId |-> NullId,
     isTied |-> TRUE]
  ELSE
    [aHoles |-> a, bHoles |-> b, played |-> played, isFinal |-> FALSE,
     text |-> ToString(abs) \o " Up Thru " \o ToString(played),
     leaderSideId |-> IF diff > 0 THEN sideAId ELSE sideBId,
     isTied |-> FALSE]

\* `played += 1` placed before the `continue`: every hole counts as played
Mut_matchStatusFromHoles_Tallied(t, sideAId, sideBId) ==
  matchStatusFromHoles_Result(t.a, t.b, NumHoles, sideAId, sideBId)

matchStatusFromHoles_Tallied(t, sideAId, sideBId) == matchStatusFromHoles_Result(t.a, t.b, t.played, sideAId, sideBId)

matchStatusFromHoles(holes, sideAId, sideBId) ==
  matchStatusFromHoles_Tallied(TallyHoles(holes, 1, sideAId, sideBId, [a |-> 0, b |-> 0, played |-> 0]),
    sideAId, sideBId)

\* the copy in tournamentPrototype.js
\* the returns of Proto_matchStatusFromHoles, from the loop's tallies
Proto_matchStatusFromHoles_Result(a, b, played, sideAId, sideBId) ==
  LET remaining == NumHoles - played
      diff == a - b
      abs == Abs(diff)
      leader == IF diff > 0 THEN "A" ELSE IF diff < 0 THEN "B" ELSE "AS"
  IN
  IF CloseoutReached(abs, remaining, played) THEN
    [aHoles |-> a, bHoles |-> b, played |-> played, isFinal |-> TRUE,
     text |-> IF leader = "AS" THEN "Final (Tied)"
              ELSE "Final " \o ToString(abs) \o "&" \o ToString(remaining),
     leaderSideId |-> IF diff > 0 THEN sideAId ELSE sideBId,
     isTied |-> FALSE]
  ELSE IF played = 0 THEN
    [aHoles |-> 0, bHoles |-> 0, played |-> 0, isFinal |-> FALSE,
     text |-> "Not Started", leaderSideId |-> NullId, isTied |-> TRUE]
  ELSE IF played = NumHoles THEN
    IF diff = 0 THEN
      [aHoles |-> a, bHoles |-> b, played |-> played, isFinal |-> TRUE,
       text |-> "Final (Tied)", leaderSideId |-> NullId, isTied |-> TRUE]
    ELSE
      [aHoles |-> a, bHoles |-> b, played |-> played, isFinal |-> TRUE,
       text |-> "Final " \o ToString(abs) \o " Up",
       leaderSideId |-> IF diff > 0 THEN sideAId ELSE sideBId,
       isTied |-> FALSE]
  ELSE IF diff = 0 THEN
    [aHoles |-> a, bHoles |-> b, played |-> played, isFinal |-> FALSE,
     text |-> "AS Thru " \o ToString(played), leaderSideId |-> NullId,
     isTied |-> TRUE]
  ELSE
    [aHoles |-> a, bHoles |-> b, played |-> played, isFinal |-> FALSE,
     text |-> ToString(abs) \o " Up Thru " \o ToString(played),
     leaderSideId |-> IF diff > 0 THEN sideAId ELSE sideBId,
     isTied |-> FALSE]

Proto_matchStatusFromHoles_Tallied(t, sideAId, sideBId) == Proto_matchStatusFromHoles_Result(t.a, t.b, t.played, sideAId, sideBId)

Proto_matchStatusFromHoles(holes, sideAId, sideBId) ==
  Proto_matchStatusFromHoles_Tallied(TallyHoles(holes, 1, sideAId, sideBId, [a |-> 0, b |-> 0, played |-> 0]),
    sideAId, sideBId)

\* ------------------------------------------------------------------------
\* Match status from cumulative stableford points (scramble)
\* ------------------------------------------------------------------------
\* the for-loop of stablefordTotalsStatusFromHoles
RECURSIVE TallyStableford(_, _, _)
TallyStableford(matchHoles, i, acc) ==
  IF i > Len(matchHoles) THEN acc
  ELSE LET h == matchHoles[i] IN
    IF ~h.played THEN TallyStableford(matchHoles, i + 1, acc)
    ELSE IF h.details.type # "scramble" THEN TallyStableford(matchHoles, i + 1, acc)
    ELSE IF h.details.aPts = None \/ h.details.bPts = None
      THEN TallyStableford(matchHoles, i + 1, acc)
    ELSE TallyStableford(matchHoles, i + 1,
           [played |-> acc.played + 1,
            aTotal |-> acc.aTotal + h.details.aPts[1],
            bTotal |-> acc.bTotal + h.details.bPts[1]])

\* `diff >= 0 ? sideAId : sideBId`: level totals name side A the leader
Mut_stablefordTotals_Result(played, aTotal, bTotal, sideAId, sideBId) ==
  LET diff == aTotal - bTotal IN
  IF played = 0 THEN
    [played |-> 0, isFinal |-> FALSE, text |-> EM_DASH, leaderSideId |-> NullId,
     isTied |-> TRUE, aTotalPts |-> 0, bTotalPts |-> 0]
  ELSE
    [played |-> played, isFinal |-> (played = NumHoles),
     text |-> ToString(aTotal) \o EN_DASH \o ToString(bTotal),
     leaderSideId |-> IF diff >= 0 THEN sideAId ELSE sideBId,
     isTied |-> (diff = 0), aTotalPts |-> aTotal, bTotalPts |-> bTotal]

\* the returns of stablefordTotalsStatusFromHoles, from the loop's totals
stablefordTotals_Result(played, aTotal, bTotal, sideAId, sideBId) ==
  LET diff == aTotal - bTotal IN
  IF played = 0 THEN
    [played |-> 0, isFinal |-> FALSE, text |-> EM_DASH, leaderSideId |-> NullId,
     isTied |-> TRUE, aTotalPts |-> 0, bTotalPts |-> 0]
  ELSE
    [played |-> played, isFinal |-> (played = NumHoles),
     text |-> ToString(aTotal) \o EN_DASH \o ToString(bTotal),
     leaderSideId |-> IF diff > 0 THEN sideAId ELSE IF diff < 0 THEN sideBId ELSE NullId,
     isTied |-> (diff = 0), aTotalPts |-> aTotal, bTotalPts |-> bTotal]

stablefordTotals_Tallied(t, sideAId, sideBId) ==
  stablefordTotals_Result(t.played, t.aTotal, t.bTotal, sideAId, sideBId)

stablefordTotalsStatusFromHoles(matchHoles, sideAId, sideBId) ==
  stablefordTotals_Tallied(
    TallyStableford(matchHoles, 1, [played |-> 0, aTotal |-> 0, bTotal |-> 0]),
    sideAId, sideBId)

\* ------------------------------------------------------------------------
\* Points allocation.  An object literal with computed keys: a later key
\* overwrites an equal earlier one, so the later key is the left operand
\* of @@.
\* ------------------------------------------------------------------------
\* the tie branch left out
Mut_pointsForFinalMatch(status, sideA, sideB) ==
  IF ~status.isFinal THEN (sideB.teamId :> NoPoint) @@ (sideA.teamId :> NoPoint)
  ELSE LET winnerSideId == status.leaderSideId
           winnerTeam == IF winnerSideId = sideA.id THEN sideA.teamId ELSE sideB.teamId
           loserTeam == IF winnerTeam = sideA.teamId THEN sideB.teamId ELSE sideA.teamId
       IN (loserTeam :> NoPoint) @@ (winnerTeam :> FullPoint)

\* winner and loser taken from the wrong sides
Mut_pointsForFinalMatch_Swapped(status, sideA, sideB) ==
  IF ~status.isFinal THEN (sideB.teamId :> NoPoint) @@ (sideA.teamId :> NoPoint)
  ELSE IF status.isTied THEN (sideB.teamId :> HalfPoint) @@ (sideA.teamId :> HalfPoint)
  ELSE LET winnerSideId == status.leaderSideId
           winnerTeam == IF winnerSideId = sideA.id THEN sideB.teamId ELSE sideA.teamId
           loserTeam == IF winnerTeam = sideA.teamId THEN sideB.teamId ELSE sideA.teamId
       IN (loserTeam :> NoPoint) @@ (winnerTeam :> FullPoint)

pointsForFinalMatch(status, sideA, sideB) ==
  IF ~status.isFinal THEN (sideB.teamId :> NoPoint) @@ (sideA.teamId :> NoPoint)
  ELSE IF status.isTied THEN (sideB.teamId :> HalfPoint) @@ (sideA.teamId :> HalfPoint)
  ELSE LET winnerSideId == status.leaderSideId
           winnerTeam == IF winnerSideId = sideA.id THEN sideA.teamId ELSE sideB.teamId
           loserTeam == IF winnerTeam = sideA.teamId THEN sideB.teamId ELSE sideA.teamId
       IN (loserTeam :> NoPoint) @@ (winnerTeam :> FullPoint)

\* text.includes(part)
Includes(text, part) ==
  \E i \in 1..(Len(text) - Len(part) + 1) : SubSeq(text, i, i + Len(part) - 1) = part

\* the copy in tournamentPrototype.js: a tie is read off the label
Proto_pointsForFinalMatch(status, sideA, sideB) ==
  IF ~status.isFinal THEN (sideB.teamId :> NoPoint) @@ (sideA.teamId :> NoPoint)
  ELSE IF Includes(status.text, "Tied")
    THEN (sideB.teamId :> HalfPoint) @@ (sideA.teamId :> HalfPoint)
  ELSE LET winnerSideId == status.leaderSideId
           winnerTeam == IF winnerSideId = sideA.id THEN sideA.teamId ELSE sideB.teamId
           loserTeam == IF winnerTeam = sideA.teamId THEN sideB.teamId ELSE sideA.teamId
       IN (loserTeam :> NoPoint) @@ (winnerTeam :> FullPoint)

\* ------------------------------------------------------------------------
\* Courses
\* ------------------------------------------------------------------------
\* `hole: i` in place of `hole: i + 1`: the holes are numbered from 0
Mut_holesFromParAndHcp(parArr, hcpArr) ==
  [i \in 1..Len(parArr) |-> [hole |-> i - 1, par |-> parArr[i], hcpRank |-> hcpArr[i]]]

\* parArr.map((par, i) => ({ hole: i + 1, par, hcpRank: hcpArr[i] })), the
\* arrays being 1-based here
holesFromParAndHcp(parArr, hcpArr) ==
  [i \in 1..Len(parArr) |-> [hole |-> i, par |-> parArr[i], hcpRank |-> hcpArr[i]]]

Proto_holesFromParAndHcp(parArr, hcpArr) ==
  [i \in 1..Len(parArr) |-> [hole |-> i, par |-> parArr[i], hcpRank |-> hcpArr[i]]]

COURSES ==
  [d \in 1..3 |->
    IF d = 1 THEN
      [name |-> "Wildfire Golf Club (Fazio Course)",
       holes |-> holesFromParAndHcp(
         <<4, 4, 5, 4, 3, 4, 4, 3, 5, 4, 5, 4, 3, 5, 3, 4, 4, 4>>,
         <<12, 8, 2, 16, 18, 10, 4, 14, 6, 11, 5, 9, 17, 1, 13, 15, 3, 7>>)]
    ELSE IF d = 2 THEN
      [name |-> "Lookout Mountain Golf Club",
       holes |-> holesFromParAndHcp(
         <<4, 5, 3, 4, 5, 3, 5, 4, 3, 4, 3, 4, 4, 4, 5, 3, 4, 5>>,
         <<11, 9, 15, 3, 7, 13, 1, 5, 17, 4, 12, 2, 18, 8, 16, 6, 14, 10>>)]
    ELSE
      [name |-> "Papago Golf Club",
       holes |-> holesFromParAndHcp(
         <<5, 4, 4, 3, 4, 4, 4, 3, 5, 5, 3, 4, 4, 4, 5, 4, 3, 4>>,
         <<15, 13, 1, 9, 7, 5, 3, 11, 17, 18, 14, 16, 6, 10, 12, 2, 8, 4>>)]]

\* the table of tournamentPrototype.js
Proto_COURSES ==
  [d \in 1..3 |->
    IF d = 1 THEN
      [name |-> "Wildfire Golf Club (Fazio Course)",
       holes |-> Proto_holesFromParAndHcp(
         <<4, 4, 5, 4, 3, 4, 4, 3, 5, 4, 5, 4, 3, 5, 3, 4, 4, 4>>,
         <<12, 8, 2, 16, 18, 10, 4, 14, 6, 11, 5, 9, 17, 1, 13, 15, 3, 7>>)]
    ELSE IF d = 2 THEN
      [name |-> "Lookout Mountain Golf Club",
       holes |-> Proto_holesFromParAndHcp(
         <<4, 5, 3, 4, 5, 3, 5, 4, 3, 4, 3, 4, 4, 4, 5, 3, 4, 5>>,
         <<11, 9, 15, 3, 7, 13, 1, 5, 17, 4, 12, 2, 18, 8, 16, 6, 14, 10>>)]
    ELSE
      [name |-> "Papago Golf Club",
       holes |-> Proto_holesFromParAndHcp(
         <<5, 4, 4, 3, 4, 4, 4, 3, 5, 5, 3, 4, 4, 4, 5, 4, 3, 4>>,
         <<15, 13, 1, 9, 7, 5, 3, 11, 17, 18, 14, 16, 6, 10, 12, 2, 8, 4>>)]]

\* ------------------------------------------------------------------------
\* Roster and schedule of makeInitialTournament
\* ------------------------------------------------------------------------
SAMPLE_ROSTER_SLOTS ==
  << [teamId |-> "JC", courseHcp |-> 13], [teamId |-> "JC", courseHcp |-> 8],
     [teamId |-> "JC", courseHcp |-> 12], [teamId |-> "JC", courseHcp |-> 4],
     [teamId |-> "JC", courseHcp |-> 14], [teamId |-> "JC", courseHcp |-> 17],
     [teamId |-> "JC", courseHcp |-> 20], [teamId |-> "JC", courseHcp |-> 22],
     [teamId |-> "JC", courseHcp |-> 22], [teamId |-> "JC", courseHcp |-> 28],
     [teamId |-> "SG", courseHcp |-> 23], [teamId |-> "SG", courseHcp |-> 3],
     [teamId |-> "SG", courseHcp |-> 6], [teamId |-> "SG", courseHcp |-> 12],
     [teamId |-> "SG", courseHcp |-> 14], [teamId |-> "SG", courseHcp |-> 15],
     [teamId |-> "SG", courseHcp |-> 20], [teamId |-> "SG", courseHcp |-> 21],
     [teamId |-> "SG", courseHcp |-> 28], [teamId |-> "SG", courseHcp |-> 17] >>

PlayerId(idx) == "p" \o ToString(idx)

players ==
  [idx \in 1..Len(SAMPLE_ROSTER_SLOTS) |->
    [id |-> PlayerId(idx), teamId |-> SAMPLE_ROSTER_SLOTS[idx].teamId,
     courseHcp |-> SAMPLE_ROSTER_SLOTS[idx].courseHcp]]

\* Object.fromEntries(tournament.players.map((p) => [p.id, p]))
playersById ==
  [id \in {players[i].id : i \in DOMAIN players} |->
    players[CHOOSE i \in DOMAIN players : players[i].id = id]]

EmptyMap == <<>>

MatchId(day, matchNo) == "d" \o ToString(day) \o "m" \o ToString(matchNo)

\* the match makeInitialTournament creates as match matchNo of the day
\* (players[] is 0-based in the source, 1-based here)
InitialMatch(day, matchNo) ==
  LET i == matchNo - 1
      base == [id |-> MatchId(day, matchNo), day |-> day, matchNo |-> matchNo,
               locked |-> FALSE, finalized |-> FALSE]
      pairA == <<players[i * 2 + 1].id, players[i * 2 + 2].id>>
      pairB == <<players[10 + i * 2 + 1].id, players[10 + i * 2 + 2].id>>
      sideOf(tag, team, ids) ==
        [id |-> MatchId(day, matchNo) \o "-" \o tag, teamId |-> team, playerIds |-> ids]
  IN
  IF day = 1 THEN
    [id |-> base.id, day |-> day, matchNo |-> matchNo, format |-> "FOURBALL_NET",
     sideA |-> sideOf("A", "JC", pairA), sideB |-> sideOf("B", "SG", pairB),
     locked |-> FALSE, finalized |-> FALSE, fourballGrossByPlayer |-> EmptyMap]
  ELSE IF day = 2 THEN
    [id |-> base.id, day |-> day, matchNo |-> matchNo, format |-> "SCRAMBLE_STABLEFORD",
     sideA |-> sideOf("A", "JC", pairA), sideB |-> sideOf("B", "SG", pairB),
     locked |-> FALSE, finalized |-> FALSE, scrambleGrossBySide |-> EmptyMap]
  ELSE
    [id |-> base.id, day |-> day, matchNo |-> matchNo, format |-> "SINGLES_NET",
     sideA |-> sideOf("A", "JC", <<players[i + 1].id>>),
     sideB |-> sideOf("B", "SG", <<players[10 + i + 1].id>>),
     locked |-> FALSE, finalized |-> FALSE, singlesGrossByPlayer |-> EmptyMap]

\* ------------------------------------------------------------------------
\* Derived scoring
\* ------------------------------------------------------------------------
\* `?? 0` in place of `?? null`: a hole missing from a player's own map
\* reads as an entry of 0 strokes
Mut_GrossLookup(map, key, hole) ==
  IF key \in DOMAIN map
  THEN IF hole \in DOMAIN map[key] THEN Some(map[key][hole]) ELSE Some(0)
  ELSE None

\* map?.[key]?.[hole] ?? null
GrossLookup(map, key, hole) ==
  IF key \in DOMAIN map
  THEN IF hole \in DOMAIN map[key] THEN Some(map[key][hole]) ELSE None
  ELSE None

\* the raw score map of a match, whichever field its format uses
RawGross(m) ==
  IF m.format = "FOURBALL_NET" THEN m.fourballGrossByPlayer
  ELSE IF m.format = "SCRAMBLE_STABLEFORD" THEN m.scrambleGrossBySide
  ELSE m.singlesGrossByPlayer

\* pids.map(pid => ({pid, gross, net})).filter(x => x.gross != null && x.net != null)
FourballNets(m, pids, h, byId) ==
  LET entry(pid) ==
        LET gross == GrossLookup(m.fourballGrossByPlayer, pid, h.hole)
            net == IF pid \in DOMAIN byId
                   THEN netScore(gross, byId[pid].courseHcp, h.hcpRank)
                   ELSE None
        IN [pid |-> pid, gross |-> gross, net |-> net]
      mapped == [i \in 1..Len(pids) |-> entry(pids[i])]
      keep(x) == x.gross # None /\ x.net # None
  IN SelectSeq(mapped, keep)

\* the comparison of the reduce turned around: the worst ball is kept
RECURSIVE Mut_ReduceBest(_, _, _)
Mut_ReduceBest(nets, i, best) ==
  IF i > Len(nets) THEN best
  ELSE LET cur == nets[i] IN
    Mut_ReduceBest(nets, i + 1,
      IF best = None THEN Some(cur)
      ELSE IF cur.net[1] > best[1].net[1] THEN Some(cur) ELSE best)

\* nets.reduce((best, cur) => (best == null || cur.net < best.net ? cur : best), null)
RECURSIVE ReduceBest(_, _, _)
ReduceBest(nets, i, best) ==
  IF i > Len(nets) THEN best
  ELSE LET cur == nets[i] IN
    ReduceBest(nets, i + 1,
      IF best = None THEN Some(cur)
      ELSE IF cur.net[1] < best[1].net[1] THEN Some(cur) ELSE best)

\* the played branch of the fourball case, from the two best entries
FourballPlayed(m, h, aBest, bBest) ==
  LET winner == IF aBest[1].net[1] < bBest[1].net[1] THEN m.sideA.id
                ELSE IF bBest[1].net[1] < aBest[1].net[1] THEN m.sideB.id
                ELSE NullId
  IN [hole |-> h.hole, played |-> TRUE, winnerSideId |-> winner,
      details |-> [type |-> "fourball", aBest |-> aBest, bBest |-> bBest]]

\* the fourball case, from the two filtered lists
FourballFromNets(m, h, aNets, bNets) ==
  IF Len(aNets) = 0 \/ Len(bNets) = 0 THEN
    [hole |-> h.hole, played |-> FALSE, winnerSideId |-> NullId,
     details |-> [type |-> "fourball", aBest |-> None, bBest |-> None]]
  ELSE FourballPlayed(m, h, ReduceBest(aNets, 1, None), ReduceBest(bNets, 1, None))

FourballHole(m, h, byId) ==
  FourballFromNets(m, h, FourballNets(m, m.sideA.playerIds, h, byId),
                   FourballNets(m, m.sideB.playerIds, h, byId))

\* the lower stableford points win, as if they were strokes
Mut_ScrambleFromGross(m, h, aGross, bGross) ==
  IF aGross = None \/ bGross = None THEN
    [hole |-> h.hole, played |-> FALSE, winnerSideId |-> NullId,
     details |-> [type |-> "scramble", aGross |-> None, bGross |-> None,
                  aPts |-> None, bPts |-> None]]
  ELSE
    LET aPts == stablefordFromDiff(aGross[1] - h.par)
        bPts == stablefordFromDiff(bGross[1] - h.par)
        winner == IF aPts < bPts THEN m.sideA.id
                  ELSE IF bPts < aPts THEN m.sideB.id
                  ELSE NullId
    IN [hole |-> h.hole, played |-> TRUE, winnerSideId |-> winner,
        details |-> [type |-> "scramble", aGross |-> aGross, bGross |-> bGross,
                     aPts |-> Some(aPts), bPts |-> Some(bPts)]]

\* the scramble case, from the two sides' gross
ScrambleFromGross(m, h, aGross, bGross) ==
  IF aGross = None \/ bGross = None THEN
    [hole |-> h.hole, played |-> FALSE, winnerSideId |-> NullId,
     details |-> [type |-> "scramble", aGross |-> None, bGross |-> None,
                  aPts |-> None, bPts |-> None]]
  ELSE
    LET aPts == stablefordFromDiff(aGross[1] - h.par)
        bPts == stablefordFromDiff(bGross[1] - h.par)
        winner == IF aPts > bPts THEN m.sideA.id
                  ELSE IF bPts > aPts THEN m.sideB.id
                  ELSE NullId
    IN [hole |-> h.hole, played |-> TRUE, winnerSideId |-> winner,
        details |-> [type |-> "scramble", aGross |-> aGross, bGross |-> bGross,
                     aPts |-> Some(aPts), bPts |-> Some(bPts)]]

ScrambleHole(m, h) ==
  ScrambleFromGross(m, h, GrossLookup(m.scrambleGrossBySide, m.sideA.id, h.hole),
                    GrossLookup(m.scrambleGrossBySide, m.sideB.id, h.hole))

SinglesHole(m, h, byId) ==
  LET aPid == m.sideA.playerIds[1]
      bPid == m.sideB.playerIds[1]
      aGross == GrossLookup(m.singlesGrossByPlayer, aPid, h.hole)
      bGross == GrossLookup(m.singlesGrossByPlayer, bPid, h.hole)
  IN
  IF aGross = None \/ bGross = None THEN
    [hole |-> h.hole, played |-> FALSE, winnerSideId |-> NullId,
     details |-> [type |-> "singles", aGross |-> None, bGross |-> None,
                  aNet |-> None, bNet |-> None]]
  ELSE
    LET aNet == IF aPid \in DOMAIN byId
                THEN netScore(aGross, byId[aPid].courseHcp, h.hcpRank) ELSE None
        bNet == IF bPid \in DOMAIN byId
                THEN netScore(bGross, byId[bPid].courseHcp, h.hcpRank) ELSE None
        winner == IF aNet # None /\ bNet # None
                  THEN IF aNet[1] < bNet[1] THEN m.sideA.id
                       ELSE IF bNet[1] < aNet[1] THEN m.sideB.id
                       ELSE NullId
                  ELSE NullId
    IN [hole |-> h.hole, played |-> TRUE, winnerSideId |-> winner,
        details |-> [type |-> "singles", aGross |-> aGross, bGross |-> bGross,
                     aNet |-> aNet, bNet |-> bNet]]

computeMatchHoles(m, holes, byId) ==
  [i \in 1..Len(holes) |->
    IF m.format = "FOURBALL_NET" THEN FourballHole(m, holes[i], byId)
    ELSE IF m.format = "SCRAMBLE_STABLEFORD" THEN ScrambleHole(m, holes[i])
    ELSE SinglesHole(m, holes[i], byId)]

\* mh.map((x) => ({ played: x.played, winnerSideId: x.winnerSideId }))
HoleOutcomes(mh) ==
  [i \in 1..Len(mh) |-> [played |-> mh[i].played, winnerSideId |-> mh[i].winnerSideId]]

\* pts and the memo's value, from the status
ComputedFromStatus(m, mh, status) ==
  [holes |-> mh, status |-> status, points |-> pointsForFinalMatch(status, m.sideA, m.sideB)]

\* the status, from the hole results
ComputedFromHoles(m, mh) ==
  ComputedFromStatus(m, mh,
    IF m.format = "SCRAMBLE_STABLEFORD"
    THEN stablefordTotalsStatusFromHoles(mh, m.sideA.id, m.sideB.id)
    ELSE matchStatusFromHoles(HoleOutcomes(mh), m.sideA.id, m.sideB.id))

\* the useMemo of MatchPage: hole results, status and points of the open match
Computed(m) == ComputedFromHoles(m, computeMatchHoles(m, COURSES[m.day].holes, playersById))

\* ------------------------------------------------------------------------
\* Tournament totals
\* ------------------------------------------------------------------------
\* Object.fromEntries((tournament.players || []).map((p) => [p.id, p])):
\* of two players with one id the later stays
ById(ps) ==
  [id \in {ps[i].id : i \in DOMAIN ps} |->
    ps[CHOOSE i \in DOMAIN ps : ps[i].id = id /\ \A j \in DOMAIN ps : ps[j].id = id => j <= i]]

\* pts.JC ?? 0
TeamPoints(pts, team) == IF team \in DOMAIN pts THEN pts[team] ELSE NoPoint

\* one match card: hole results, status by the tracker of the format, points
MatchCard(m, holes, byId) == ComputedFromHoles(m, computeMatchHoles(m, holes, byId))

\* `sg += pts.JC ?? 0`: both day totals count team JC
RECURSIVE Mut_SumCards(_, _, _, _)
Mut_SumCards(cards, i, team, acc) ==
  IF i > Len(cards) THEN acc
  ELSE Mut_SumCards(cards, i + 1, team, acc + TeamPoints(cards[i].points, "JC"))

\* jc += pts.JC ?? 0 (sg += pts.SG ?? 0) over the matches of a day
RECURSIVE SumCards(_, _, _, _)
SumCards(cards, i, team, acc) ==
  IF i > Len(cards) THEN acc
  ELSE SumCards(cards, i + 1, team, acc + TeamPoints(cards[i].points, team))

DaySummaryOf(d, cards) ==
  [day |-> d.day, jc |-> SumCards(cards, 1, "JC", 0), sg |-> SumCards(cards, 1, "SG", 0),
   matchCards |-> cards]

DaySummary(d, courses, byId) ==
  LET holes == IF d.day \in DOMAIN courses THEN courses[d.day].holes ELSE <<>>
  IN DaySummaryOf(d, [i \in 1..Len(d.matches) |-> MatchCard(d.matches[i], holes, byId)])

\* daySummaries.reduce((s, d) => s + d.jc, 0)
RECURSIVE SumDays(_, _, _, _)
SumDays(daySummaries, k, team, acc) ==
  IF k > Len(daySummaries) THEN acc
  ELSE SumDays(daySummaries, k + 1, team,
         acc + (IF team = "JC" THEN daySummaries[k].jc ELSE daySummaries[k].sg))

TotalsOf(daySummaries) ==
  [daySummaries |-> daySummaries, totalJC |-> SumDays(daySummaries, 1, "JC", 0),
   totalSG |-> SumDays(daySummaries, 1, "SG", 0)]

computeTournamentTotals(tournament) ==
  TotalsOf([k \in 1..Len(tournament.days) |->
             DaySummary(tournament.days[k], tournament.courses, ById(tournament.players))])

\* the leader label of HomePage, with the abbreviations of TEAM_ABBR
HomePageLeader(totals) ==
  IF totals.totalJC = totals.totalSG THEN "Tied"
  ELSE IF totals.totalJC > totals.totalSG THEN "JCGC" ELSE "SGC"

\* ------------------------------------------------------------------------
\* Score entry (MatchPage)
\* ------------------------------------------------------------------------
\* raw numbers typed into the stepper's input field
TypedRaw == {13}

\* the values NumberStepper hands to onChange for a field showing `value`:
\* the minus button, the plus button, the emptied field, a typed number
NumberStepper(value) ==
  {IF value = None THEN Some(MinGross) ELSE Some(clamp(value[1] - 1, MinGross, MaxGross)),
   IF value = None THEN Some(MinGross) ELSE Some(clamp(value[1] + 1, MinGross, MaxGross)),
   None}
  \cup {Some(clamp(n, MinGross, MaxGross)) : n \in TypedRaw}

\* `per = {}` in place of `per = {...(next[key] || {})}`: the entry replaces
\* the row of the key
Mut_WithGross(map, key, holeNum, gross) ==
  LET per == EmptyMap
      per2 == IF gross = None
              THEN [h \in DOMAIN per \ {holeNum} |-> per[h]]
              ELSE (holeNum :> gross[1]) @@ per
  IN (key :> per2) @@ map

\* next = {...map}; per = {...(next[key] || {})};
\* if (gross == null) delete per[holeNum]; else per[holeNum] = gross; next[key] = per
WithGross(map, key, holeNum, gross) ==
  LET per == IF key \in DOMAIN map THEN map[key] ELSE EmptyMap
      per2 == IF gross = None
              THEN [h \in DOMAIN per \ {holeNum} |-> per[h]]
              ELSE (holeNum :> gross[1]) @@ per
  IN (key :> per2) @@ map

PlayerIdsOf(m) ==
  {m.sideA.playerIds[i] : i \in DOMAIN m.sideA.playerIds}
    \cup {m.sideB.playerIds[i] : i \in DOMAIN m.sideB.playerIds}

\* writeMatch(match.id, patch) and the snapshot that brings the patched match
\* back to the page, where useMemo recomputes `computed`
WriteMatch(next) ==
  /\ match' = next
  /\ computed' = Computed(next)
  /\ edits' = edits + 1
  /\ UNCHANGED <<activeHole, pc, arg, ret, db, clients>>

setFourballGross(pid, holeNum, gross) ==
  /\ match.format = "FOURBALL_NET"
  /\ WriteMatch([match EXCEPT !.fourballGrossByPlayer =
                   WithGross(match.fourballGrossByPlayer, pid, holeNum, gross)])

setSinglesGross(pid, holeNum, gross) ==
  /\ match.format = "SINGLES_NET"
  /\ WriteMatch([match EXCEPT !.singlesGrossByPlayer =
                   WithGross(match.singlesGrossByPlayer, pid, holeNum, gross)])

setScrambleGross(sideId, holeNum, gross) ==
  /\ match.format = "SCRAMBLE_STABLEFORD"
  /\ WriteMatch([match EXCEPT !.scrambleGrossBySide =
                   WithGross(match.scrambleGrossBySide, sideId, holeNum, gross)])

FourballEntry ==
  /\ pc = "page"
  /\ edits < MaxEdits
  /\ match.format = "FOURBALL_NET"
  /\ \E pid \in PlayerIdsOf(match) :
       \E v \in NumberStepper(GrossLookup(match.fourballGrossByPlayer, pid, activeHole)) :
         setFourballGross(pid, activeHole, v)

SinglesEntry ==
  /\ pc = "page"
  /\ edits < MaxEdits
  /\ match.format = "SINGLES_NET"
  /\ \E pid \in PlayerIdsOf(match) :
       \E v \in NumberStepper(GrossLookup(match.singlesGrossByPlayer, pid, activeHole)) :
         setSinglesGross(pid, activeHole, v)

ScrambleEntry ==
  /\ pc = "page"
  /\ edits < MaxEdits
  /\ match.format = "SCRAMBLE_STABLEFORD"
  /\ \E sideId \in {match.sideA.id, match.sideB.id} :
       \E v \in NumberStepper(GrossLookup(match.scrambleGrossBySide, sideId, activeHole)) :
         setScrambleGross(sideId, activeHole, v)

\* ------------------------------------------------------------------------
\* Snapshots a match page can open on: the seeded match with the first
\* `thru` holes already entered by every player (or side), each gross being
\* par plus an offset that depends on the scoring pattern.
\* ------------------------------------------------------------------------
Patterns == {"level", "aLow", "bLow", "alternate", "partner"}

ThruChoices == {0, 10, 18}

\* the matches of a day the page is opened on
MatchNos == {1, 4}

\* offset to par of key number k (1 or 2) of side tag on hole h
Offset(pattern, tag, k, h) ==
  LET lowSide == IF pattern = "aLow" THEN "A"
                 ELSE IF pattern = "bLow" THEN "B"
                 ELSE IF h % 2 = 1 THEN "A" ELSE "B"
  IN
  IF pattern = "level" THEN 0
  ELSE IF pattern = "fourteenNine"
    THEN (IF tag = "A" THEN (IF h <= 2 THEN 1 ELSE 0) ELSE (IF h <= 3 THEN 2 ELSE 0))
  ELSE IF pattern = "partner" THEN (IF k = 2 THEN -1 ELSE IF tag = "A" THEN 2 ELSE 3)
  ELSE IF tag = lowSide THEN -2 ELSE 2

FilledRow(day, pattern, tag, k, thru) ==
  [h \in 1..thru |->
     clamp(COURSES[day].holes[h].par + Offset(pattern, tag, k, h), MinGross, MaxGross)]

SnapshotOf(day, matchNo, pattern, thru) ==
  LET m == InitialMatch(day, matchNo)
      rowsOf(side, tag) ==
        [id \in {side.playerIds[k] : k \in DOMAIN side.playerIds} |->
          FilledRow(day, pattern, tag,
                    CHOOSE k \in DOMAIN side.playerIds : side.playerIds[k] = id, thru)]
      byPlayer == rowsOf(m.sideA, "A") @@ rowsOf(m.sideB, "B")
      bySide == (m.sideA.id :> FilledRow(day, pattern, "A", 1, thru))
                  @@ (m.sideB.id :> FilledRow(day, pattern, "B", 1, thru))
  IN
  IF thru = 0 THEN m
  ELSE IF m.format = "FOURBALL_NET" THEN [m EXCEPT !.fourballGrossByPlayer = byPlayer]
  ELSE IF m.format = "SCRAMBLE_STABLEFORD" THEN [m EXCEPT !.scrambleGrossBySide = bySide]
  ELSE [m EXCEPT !.singlesGrossByPlayer = byPlayer]

NoCall == [fn |-> "none"]

NoMatch == [format |-> "none"]

\* no document and no signed-in user: the specifications of one page or of
\* one call
NoDb == [claims |-> EmptyMap, match |-> NoMatch]

NoClients == <<>>

\* A match page open on a snapshot, on the hole the scorer has selected
\* (useState(1), moved by the hole selector before scores are entered).
Init ==
  /\ pc = "page"
  /\ \E day \in 1..3, matchNo \in MatchNos, pattern \in Patterns, thru \in ThruChoices :
       /\ match = SnapshotOf(day, matchNo, pattern, thru)
       /\ computed = Computed(match)
  /\ activeHole \in 1..NumHoles
  /\ edits = 0
  /\ arg = NoCall
  /\ ret = NoCall
  /\ db = NoDb
  /\ clients = NoClients

Next == FourballEntry \/ SinglesEntry \/ ScrambleEntry

Spec == Init /\ [][Next]_vars

\* ------------------------------------------------------------------------
\* A fourball card entered in part: every player has entered no hole, the
\* first ten or the first eleven, one side being low on every hole, and the
\* page is open on a hole all have entered, on one some have, or on one
\* nobody has.
\* ------------------------------------------------------------------------
PartialSnapshot(pattern, thruOf) ==
  LET m == InitialMatch(1, 1)
      tagOf(id) == IF \E k \in DOMAIN m.sideA.playerIds : m.sideA.playerIds[k] = id
                   THEN "A" ELSE "B"
      ids(tag) == IF tag = "A" THEN m.sideA.playerIds ELSE m.sideB.playerIds
      numOf(id) == CHOOSE k \in DOMAIN ids(tagOf(id)) : ids(tagOf(id))[k] = id
  IN [m EXCEPT !.fourballGrossByPlayer =
        [id \in {x \in PlayerIdsOf(m) : thruOf[x] > 0} |->
           FilledRow(1, pattern, tagOf(id), numOf(id), thruOf[id])]]

InitPartial ==
  /\ pc = "page"
  /\ \E pattern \in {"aLow", "bLow"},
        thruOf \in [PlayerIdsOf(InitialMatch(1, 1)) -> {0, 10, 11}] :
       /\ thruOf[InitialMatch(1, 1).sideA.playerIds[1]] > 0
       /\ thruOf[InitialMatch(1, 1).sideB.playerIds[1]] > 0
       /\ match = PartialSnapshot(pattern, thruOf)
       /\ computed = Computed(match)
  /\ activeHole \in {3, 11, 12}
  /\ edits = 0
  /\ arg = NoCall
  /\ ret = NoCall
  /\ db = NoDb
  /\ clients = NoClients

\* the onChange of a stepper of the fourball page; the call is kept in ret
PartialEntry ==
  /\ pc = "page"
  /\ edits < MaxEdits
  /\ match.format = "FOURBALL_NET"
  /\ \E pid \in PlayerIdsOf(match) :
       \E v \in NumberStepper(GrossLookup(match.fourballGrossByPlayer, pid, activeHole)) :
         LET next == [match EXCEPT !.fourballGrossByPlayer =
                        WithGross(match.fourballGrossByPlayer, pid, activeHole, v)]
         IN /\ match' = next
            /\ computed' = Computed(next)
            /\ ret' = [fn |-> "setFourballGross", pid |-> pid, holeNum |-> activeHole,
                       gross |-> v]
  /\ edits' = edits + 1
  /\ UNCHANGED <<activeHole, pc, arg, db, clients>>

NextPartial == PartialEntry

SpecPartial == InitPartial /\ [][NextPartial]_vars

\* ------------------------------------------------------------------------
\* Entering and clearing scores over several edits and holes: the page opens
\* on the seeded match, empty or with its first hole entered.
\* ------------------------------------------------------------------------
RoundHoles == {1, 2}

\* the keys of the raw score map the page offers a stepper for
KeysOf(m) ==
  IF m.format = "SCRAMBLE_STABLEFORD" THEN {m.sideA.id, m.sideB.id} ELSE PlayerIdsOf(m)

\* the onChange of the stepper of key on the page of the match's format
setGross(key, holeNum, gross) ==
  \/ setFourballGross(key, holeNum, gross)
  \/ setSinglesGross(key, holeNum, gross)
  \/ setScrambleGross(key, holeNum, gross)

InitRoundTrip ==
  /\ pc = "page"
  /\ \E day \in 1..3, thru \in {0, 1} :
       /\ match = SnapshotOf(day, 1, "level", thru)
       /\ computed = Computed(match)
  /\ activeHole = 1
  /\ edits = 0
  /\ arg = NoCall
  /\ ret = NoCall
  /\ db = NoDb
  /\ clients = NoClients

\* setActiveHole(h) of the hole selector
SelectHole ==
  /\ pc = "page"
  /\ \E h \in RoundHoles \ {activeHole} : activeHole' = h
  /\ UNCHANGED <<match, computed, edits, pc, arg, ret, db, clients>>

RoundTripEntry ==
  /\ pc = "page"
  /\ edits < MaxRoundEdits
  /\ \E key \in KeysOf(match) :
       \E v \in NumberStepper(GrossLookup(RawGross(match), key, activeHole)) :
         setGross(key, activeHole, v)

NextRoundTrip == SelectHole \/ RoundTripEntry

SpecRoundTrip == InitRoundTrip /\ [][NextRoundTrip]_vars

\* ------------------------------------------------------------------------
\* The claim table: the claims field of the tournament document, written
\* whole by setClaimForUser and clearMyClaim from the caller's snapshot.
\* A client's snapshot shows its own writes at once (the local cache) and
\* the server's document once none of its writes is on the way.
\* ------------------------------------------------------------------------
Users == {"u1", "u2"}

ClaimPlayers == {"p1", "p2"}

\* tournament.claims?.[userId] || null
claimedPlayerId(claims, uid) == IF uid \in DOMAIN claims THEN claims[uid] ELSE NullId

\* the forEach that deletes the other claims of the player left out
Mut_setClaimForUser_nextClaims(claims, uid, playerId) == (uid :> playerId) @@ claims

\* nextClaims of setClaimForUser
setClaimForUser_nextClaims(claims, uid, playerId) ==
  LET kept == {k \in DOMAIN claims : claims[k] # playerId}
  IN (uid :> playerId) @@ [k \in kept |-> claims[k]]

\* nextClaims of clearMyClaim
clearMyClaim_nextClaims(claims, uid) == [k \in DOMAIN claims \ {uid} |-> claims[k]]

\* the app of a user right after sign-in, before any snapshot
\* (sent and lastEdit are the number of score entries made and the last of
\* them, kept to state properties)
FreshClient(m, hole) ==
  [claims |-> EmptyMap, pendingClaim |-> NullId, writes |-> <<>>,
   match |-> m, activeHole |-> hole, sent |-> 0, lastEdit |-> NoCall]

\* updateDoc(tRef, {claims: nextClaims}): sent, and visible to the caller
SendClaims(u, nextClaims, clearsPending) ==
  clients' = [clients EXCEPT ![u].claims = nextClaims,
                             ![u].writes = Append(@, [doc |-> "tournament",
                                                      claims |-> nextClaims,
                                                      clearsPending |-> clearsPending])]

InitClaims ==
  /\ pc = "clients"
  /\ db = [claims |-> EmptyMap, match |-> NoMatch]
  /\ clients = [u \in Users |-> FreshClient(NoMatch, 1)]
  /\ match = NoMatch
  /\ activeHole = 1
  /\ computed = NoCall
  /\ edits = 0
  /\ arg = NoCall
  /\ ret = NoCall

\* onSnapshot(tRef, ...): setBase with the server's document
OnSnapshotBase(u) ==
  /\ pc = "clients"
  /\ clients[u].writes = <<>>
  /\ clients[u].claims # db.claims
  /\ clients' = [clients EXCEPT ![u].claims = db.claims]
  /\ UNCHANGED <<match, activeHole, computed, edits, pc, arg, ret, db>>

\* the Claim / Re-Claim button of a row, disabled when the snapshot shows
\* the player claimed by somebody else
PickClaim(u, p) ==
  /\ pc = "clients"
  /\ LET claimed == \E k \in DOMAIN clients[u].claims : clients[u].claims[k] = p
         claimedByYou == claimedPlayerId(clients[u].claims, u) = p
     IN ~(claimed /\ ~claimedByYou)
  /\ clients[u].pendingClaim # p
  /\ clients' = [clients EXCEPT ![u].pendingClaim = p]
  /\ UNCHANGED <<match, activeHole, computed, edits, pc, arg, ret, db>>

\* the Cancel button of the confirmation
CancelClaim(u) ==
  /\ pc = "clients"
  /\ clients[u].pendingClaim # NullId
  /\ clients' = [clients EXCEPT ![u].pendingClaim = NullId]
  /\ UNCHANGED <<match, activeHole, computed, edits, pc, arg, ret, db>>

\* Confirm & Claim: setClaimForUser(fbUid, pendingClaim.id), up to its await
ConfirmClaim(u) ==
  /\ pc = "clients"
  /\ clients[u].pendingClaim # NullId
  /\ Len(clients[u].writes) < MaxPending
  /\ SendClaims(u, setClaimForUser_nextClaims(clients[u].claims, u, clients[u].pendingClaim),
                TRUE)
  /\ UNCHANGED <<match, activeHole, computed, edits, pc, arg, ret, db>>

\* Clear My Claim, shown when the snapshot has a claim of the user
ClearMyClaim(u) ==
  /\ pc = "clients"
  /\ claimedPlayerId(clients[u].claims, u) # NullId
  /\ Len(clients[u].writes) < MaxPending
  /\ SendClaims(u, clearMyClaim_nextClaims(clients[u].claims, u), FALSE)
  /\ UNCHANGED <<match, activeHole, computed, edits, pc, arg, ret, db>>

\* the server applies the oldest write of a client: the claims field is
\* replaced, the await returns, and setPendingClaim(null) follows a claim
ApplyClaimsWrite(u) ==
  /\ pc = "clients"
  /\ clients[u].writes # <<>>
  /\ Head(clients[u].writes).doc = "tournament"
  /\ db' = [db EXCEPT !.claims = Head(clients[u].writes).claims]
  /\ clients' = [clients EXCEPT
                   ![u].writes = Tail(@),
                   ![u].pendingClaim =
                     IF Head(clients[u].writes).clearsPending THEN NullId ELSE @]
  /\ UNCHANGED <<match, activeHole, computed, edits, pc, arg, ret>>

NextClaims ==
  \/ \E u \in Users : OnSnapshotBase(u)
  \/ \E u \in Users, p \in ClaimPlayers : PickClaim(u, p)
  \/ \E u \in Users : CancelClaim(u)
  \/ \E u \in Users : ConfirmClaim(u)
  \/ \E u \in Users : ClearMyClaim(u)
  \/ \E u \in Users : ApplyClaimsWrite(u)

SpecClaims == InitClaims /\ [][NextClaims]_vars

\* ------------------------------------------------------------------------
\* Several scorers on the page of one match: the match document, written
\* by writeMatch with the whole raw score map of the caller's snapshot.
\* ------------------------------------------------------------------------
\* the field of the match document a score entry patches
RawField(m) ==
  IF m.format = "FOURBALL_NET" THEN "fourballGrossByPlayer"
  ELSE IF m.format = "SCRAMBLE_STABLEFORD" THEN "scrambleGrossBySide"
  ELSE "singlesGrossByPlayer"

\* the document with the field of a patch replaced
WithPatch(m, field, value) ==
  IF field = "fourballGrossByPlayer" THEN [m EXCEPT !.fourballGrossByPlayer = value]
  ELSE IF field = "scrambleGrossBySide" THEN [m EXCEPT !.scrambleGrossBySide = value]
  ELSE [m EXCEPT !.singlesGrossByPlayer = value]

InitScorers ==
  /\ pc = "clients"
  /\ \E day \in 1..3, thru \in {0, 1} :
       LET m == SnapshotOf(day, 1, "level", thru) IN
       /\ db = [claims |-> EmptyMap, match |-> m]
       /\ clients \in [Users -> {FreshClient(m, h) : h \in RoundHoles}]
  /\ match = NoMatch
  /\ activeHole = 1
  /\ computed = NoCall
  /\ edits = 0
  /\ arg = NoCall
  /\ ret = NoCall

\* set{Fourball,Singles,Scramble}Gross on the page of scorer u, up to the
\* await of writeMatch: the patch is the whole map of u's snapshot with one
\* entry changed
ScorerEntry(u) ==
  /\ pc = "clients"
  /\ clients[u].match.format # "none"
  /\ clients[u].sent < MaxScorerEdits
  /\ Len(clients[u].writes) < MaxPending
  /\ LET m == clients[u].match
         hole == clients[u].activeHole
     IN \E key \in KeysOf(m) :
          \E v \in NumberStepper(GrossLookup(RawGross(m), key, hole)) :
            LET next == WithGross(RawGross(m), key, hole, v) IN
            clients' = [clients EXCEPT
              ![u].match = WithPatch(m, RawField(m), next),
              ![u].writes = Append(@, [doc |-> "match", field |-> RawField(m),
                                       value |-> next]),
              ![u].sent = @ + 1,
              ![u].lastEdit = [key |-> key, holeNum |-> hole, gross |-> v,
                               base |-> RawGross(m)]]
  /\ UNCHANGED <<match, activeHole, computed, edits, pc, arg, ret, db>>

\* updateDoc(mRef, {...patch}) at the server: the field is replaced
ApplyMatchWrite(u) ==
  /\ pc = "clients"
  /\ clients[u].writes # <<>>
  /\ Head(clients[u].writes).doc = "match"
  /\ db' = [db EXCEPT !.match = WithPatch(@, Head(clients[u].writes).field,
                                          Head(clients[u].writes).value)]
  /\ clients' = [clients EXCEPT ![u].writes = Tail(@)]
  /\ UNCHANGED <<match, activeHole, computed, edits, pc, arg, ret>>

\* onSnapshot(collection(tRef, "matches"), ...): setMatches with the
\* server's documents
OnSnapshotMatches(u) ==
  /\ pc = "clients"
  /\ clients[u].match.format # "none"
  /\ clients[u].writes = <<>>
  /\ clients[u].match # db.match
  /\ clients' = [clients EXCEPT ![u].match = db.match]
  /\ UNCHANGED <<match, activeHole, computed, edits, pc, arg, ret, db>>

NextScorers ==
  \/ \E u \in Users : ScorerEntry(u)
  \/ \E u \in Users : ApplyMatchWrite(u)
  \/ \E u \in Users : OnSnapshotMatches(u)

SpecScorers == InitScorers /\ [][NextScorers]_vars

\* ------------------------------------------------------------------------
\* The pure functions called on their own: Init draws the arguments, one
\* action per function applies it.
\* ------------------------------------------------------------------------
\* 18 hole outcomes: na holes won by side A, nb by side B, nh halved, the
\* rest unplayed, laid out from position shift + 1 on (wrapping around)
HolesInput(na, nb, nh, shift, sideAId, sideBId) ==
  [i \in 1..NumHoles |->
    LET k == (i - 1 + NumHoles - shift) % NumHoles IN
    IF k < na THEN [played |-> TRUE, winnerSideId |-> sideAId]
    ELSE IF k < na + nb THEN [played |-> TRUE, winnerSideId |-> sideBId]
    ELSE IF k < na + nb + nh THEN [played |-> TRUE, winnerSideId |-> NullId]
    ELSE [played |-> FALSE, winnerSideId |-> NullId]]

Shifts == {0, 5, 17}

StatusCalls ==
  LET m == InitialMatch(1, 1)
      tallies == {t \in (0..NumHoles) \X (0..NumHoles) \X (0..NumHoles) :
                    t[1] + t[2] + t[3] <= NumHoles}
  IN
  {[fn |-> "matchStatusFromHoles",
    holes |-> HolesInput(t[1], t[2], t[3], shift, m.sideA.id, m.sideB.id),
    sideA |-> m.sideA, sideB |-> m.sideB] : t \in tallies, shift \in Shifts}

StablefordCalls == {[fn |-> "stablefordFromDiff", diff |-> d] : d \in (-MaxDiff)..MaxDiff}

StrokesCalls ==
  {[fn |-> "strokesReceivedOnHole", courseHcp |-> c, holeHcpRank |-> r] :
     c \in 0..MaxHcp, r \in 1..NumHoles}

\* the scramble match of day 2 with the first thruA holes entered by side A
\* (but for hole gap, when gap > 0) and the first thruB holes by side B
ScrambleInput(pattern, thruA, thruB, gap) ==
  LET m == InitialMatch(2, 1)
      rowA == FilledRow(2, pattern, "A", 1, thruA)
      rowB == FilledRow(2, pattern, "B", 1, thruB)
  IN [m EXCEPT !.scrambleGrossBySide =
        (m.sideA.id :> [h \in DOMAIN rowA \ {gap} |-> rowA[h]]) @@ (m.sideB.id :> rowB)]

Gaps == {0, 1, 7}

ScrambleCalls ==
  {[fn |-> "engine", match |-> ScrambleInput(pattern, thruA, thruB, gap),
    playersById |-> playersById] :
     pattern \in Patterns \cup {"fourteenNine"}, thruA \in 0..NumHoles,
     thruB \in 0..NumHoles, gap \in Gaps}

\* what a day of the tournament looks like: nothing entered, every match
\* complete with one side low, the sides low in turn, everybody at par, or
\* ten holes entered
DayScenarios == {"notStarted", "allA", "allB", "split", "level", "partial"}

ScenarioMatch(day, matchNo, sc) ==
  SnapshotOf(day, matchNo,
    IF sc \in {"allA", "partial"} THEN "aLow"
    ELSE IF sc = "allB" THEN "bLow"
    ELSE IF sc = "split" THEN (IF matchNo % 2 = 1 THEN "aLow" ELSE "bLow")
    ELSE "level",
    IF sc = "notStarted" THEN 0 ELSE IF sc = "partial" THEN 10 ELSE NumHoles)

\* the schedule of makeInitialTournament: 5 fourball, 5 scramble, 10 singles
MatchesOfDay(day) == IF day = 3 THEN 10 ELSE 5

TournamentOf(scs) ==
  [players |-> players, courses |-> COURSES,
   days |-> [d \in 1..3 |->
              [day |-> d,
               matches |-> [n \in 1..MatchesOfDay(d) |-> ScenarioMatch(d, n, scs[d])]]]]

TotalsCalls ==
  {[fn |-> "computeTournamentTotals", tournament |-> TournamentOf(scs)] :
     scs \in [1..3 -> DayScenarios]}

\* entries under hole numbers the course does not have, added to every row
OutOfRangeHoles == {0, 19}

WithStrayEntries(m) ==
  LET raw == RawGross(m)
      stray == [h \in OutOfRangeHoles |-> MinGross]
      widened == [key \in DOMAIN raw |-> stray @@ raw[key]]
  IN IF m.format = "FOURBALL_NET" THEN [m EXCEPT !.fourballGrossByPlayer = widened]
     ELSE IF m.format = "SCRAMBLE_STABLEFORD" THEN [m EXCEPT !.scrambleGrossBySide = widened]
     ELSE [m EXCEPT !.singlesGrossByPlayer = widened]

\* the roster without the players of `gone`
RosterWithout(gone) == [id \in DOMAIN playersById \ gone |-> playersById[id]]

\* a match of each format whose players are in part unknown to the roster,
\* with and without entries under hole numbers outside the course
UnknownCalls ==
  {[fn |-> "engine",
    match |-> IF stray THEN WithStrayEntries(SnapshotOf(day, 1, pattern, thru))
              ELSE SnapshotOf(day, 1, pattern, thru),
    playersById |-> RosterWithout(gone)] :
     day \in 1..3, pattern \in Patterns, thru \in ThruChoices, stray \in BOOLEAN,
     gone \in SUBSET {"p1", "p2", "p11", "p12"}}

\* a full round on the course of a day by a player of handicap c, every
\* gross being par plus the offset of the pattern
RoundCalls ==
  {[fn |-> "netScore", day |-> d, courseHcp |-> c,
    gross |-> FilledRow(d, pattern, "B", 1, NumHoles)] :
     d \in 1..3, c \in 0..MaxHcp, pattern \in {"level", "aLow"}}

\* the statuses the two trackers produce, handed to both copies of
\* pointsForFinalMatch: every tally of a match-play card, and the scramble
\* cards of the patterns through 0, 10 and 18 holes
PointsCalls ==
  LET m == InitialMatch(1, 1)
      s == InitialMatch(2, 1)
      matchPlay ==
        {matchStatusFromHoles(c.holes, m.sideA.id, m.sideB.id) :
           c \in StatusCalls}
      scramble ==
        {stablefordTotalsStatusFromHoles(
           computeMatchHoles(ScrambleInput(pattern, thru, thru, 0),
                             COURSES[2].holes, playersById),
           s.sideA.id, s.sideB.id) :
           pattern \in Patterns \cup {"fourteenNine"}, thru \in ThruChoices}
  IN {[fn |-> "pointsForFinalMatch", status |-> st, sideA |-> m.sideA, sideB |-> m.sideB] :
        st \in matchPlay}
     \cup {[fn |-> "pointsForFinalMatch", status |-> st, sideA |-> s.sideA,
            sideB |-> s.sideB] : st \in scramble}

InitCalls ==
  /\ pc = "call"
  /\ arg \in StatusCalls \cup StablefordCalls \cup StrokesCalls \cup ScrambleCalls
               \cup TotalsCalls \cup UnknownCalls \cup {[fn |-> "COURSES", day |-> d] : d \in 1..3} \cup RoundCalls
               \cup PointsCalls
  /\ ret = NoCall
  /\ match = NoMatch
  /\ activeHole = 1
  /\ computed = NoCall
  /\ edits = 0
  /\ db = NoDb
  /\ clients = NoClients

CallMatchStatusFromHoles ==
  /\ pc = "call"
  /\ arg.fn = "matchStatusFromHoles"
  /\ pc' = "return"
  /\ ret' = LET status == matchStatusFromHoles(arg.holes, arg.sideA.id, arg.sideB.id) IN
            [status |-> status,
             proto |-> Proto_matchStatusFromHoles(arg.holes, arg.sideA.id, arg.sideB.id),
             points |-> pointsForFinalMatch(status, arg.sideA, arg.sideB)]
  /\ UNCHANGED <<match, activeHole, computed, edits, arg, db, clients>>

CallStablefordFromDiff ==
  /\ pc = "call"
  /\ arg.fn = "stablefordFromDiff"
  /\ pc' = "return"
  /\ ret' = [app |-> stablefordFromDiff(arg.diff), proto |-> Proto_stablefordFromDiff(arg.diff)]
  /\ UNCHANGED <<match, activeHole, computed, edits, arg, db, clients>>

CallStrokesReceivedOnHole ==
  /\ pc = "call"
  /\ arg.fn = "strokesReceivedOnHole"
  /\ pc' = "return"
  /\ ret' = [app |-> strokesReceivedOnHole(arg.courseHcp, arg.holeHcpRank),
             proto |-> Proto_strokesReceivedOnHole(arg.courseHcp, arg.holeHcpRank)]
  /\ UNCHANGED <<match, activeHole, computed, edits, arg, db, clients>>

\* one match card of computeTournamentTotals: hole results, status, points
CallEngine ==
  /\ pc = "call"
  /\ arg.fn = "engine"
  /\ pc' = "return"
  /\ ret' = ComputedFromHoles(arg.match,
              computeMatchHoles(arg.match, COURSES[arg.match.day].holes, arg.playersById))
  /\ UNCHANGED <<match, activeHole, computed, edits, arg, db, clients>>

\* the totals memo of the app and the leader label HomePage derives from it
CallComputeTournamentTotals ==
  /\ pc = "call"
  /\ arg.fn = "computeTournamentTotals"
  /\ pc' = "return"
  /\ ret' = LET totals == computeTournamentTotals(arg.tournament) IN
            [totals |-> totals, leader |-> HomePageLeader(totals)]
  /\ UNCHANGED <<match, activeHole, computed, edits, arg, db, clients>>

\* COURSES[day] as the pages and the totals read it
CallCourses ==
  /\ pc = "call"
  /\ arg.fn = "COURSES"
  /\ pc' = "return"
  /\ ret' = [app |-> COURSES[arg.day], proto |-> Proto_COURSES[arg.day]]
  /\ UNCHANGED <<match, activeHole, computed, edits, arg, db, clients>>

\* netScore on each hole of the day's course, as computeMatchHoles applies
\* it hole by hole, with the strokes it takes off
CallNetScore ==
  /\ pc = "call"
  /\ arg.fn = "netScore"
  /\ pc' = "return"
  /\ ret' = LET holes == COURSES[arg.day].holes IN
            [strokes |-> [i \in 1..Len(holes) |->
                           strokesReceivedOnHole(arg.courseHcp, holes[i].hcpRank)],
             nets |-> [i \in 1..Len(holes) |->
                        netScore(Some(arg.gross[holes[i].hole]), arg.courseHcp,
                                 holes[i].hcpRank)]]
  /\ UNCHANGED <<match, activeHole, computed, edits, arg, db, clients>>

CallPointsForFinalMatch ==
  /\ pc = "call"
  /\ arg.fn = "pointsForFinalMatch"
  /\ pc' = "return"
  /\ ret' = [app |-> pointsForFinalMatch(arg.status, arg.sideA, arg.sideB),
             proto |-> Proto_pointsForFinalMatch(arg.status, arg.sideA, arg.sideB)]
  /\ UNCHANGED <<match, activeHole, computed, edits, arg, db, clients>>

NextCalls ==
  \/ CallCourses
  \/ CallPointsForFinalMatch
  \/ CallNetScore
  \/ CallMatchStatusFromHoles
  \/ CallStablefordFromDiff
  \/ CallStrokesReceivedOnHole
  \/ CallEngine
  \/ CallComputeTournamentTotals

SpecCalls == InitCalls /\ [][NextCalls]_vars

\* ------------------------------------------------------------------------
\* subscribeTournament (firestore/subscribeTournament.js): five snapshot
\* listeners fill the closure variables base, players, days, matches and
\* claims, and each of them ends with emit().  db is what Firestore holds,
\* clients the closure of the one subscription, ret the last onData call.
\* ------------------------------------------------------------------------
Sources == {"base", "players", "days", "matches", "claims"}

\* what a source holds when it holds something: the tournament document as
\* { id: snap.id, ...snap.data() }, the documents of a collection in the
\* order of their ids, in which Firestore delivers them ("10" < "2" and
\* "d2m10" < "d2m2"); the second claim document has no playerId
Filled(src) ==
  CASE src = "base" -> Some([id |-> "frellis-cup-2026", name |-> "Frellis Cup"])
    [] src = "players" -> <<[id |-> "p1", teamId |-> "JC"], [id |-> "p11", teamId |-> "SG"]>>
    [] src = "days" -> <<[id |-> "10", day |-> 10], [id |-> "2", day |-> 2]>>
    [] src = "matches" ->
         <<[id |-> "d10m1", day |-> 10, matchNo |-> 1],
           [id |-> "d2m1", day |-> 2, matchNo |-> 1],
           [id |-> "d2m10", day |-> 2, matchNo |-> 10],
           [id |-> "d2m2", day |-> 2, matchNo |-> 2]>>
    [] OTHER -> <<[id |-> "u1", playerId |-> "p1"], [id |-> "u2", playerId |-> ""]>>


\* arr.slice().sort((a, b) => key(a) - key(b)): stable, so an element goes
\* behind the smaller ones and the equal ones that came before it
SortBy(arr, key) ==
  LET pos(i) == 1 + Cardinality({j \in 1..Len(arr) :
                      \/ arr[j][key] < arr[i][key]
                      \/ arr[j][key] = arr[i][key] /\ j < i})
  IN [k \in 1..Len(arr) |-> arr[CHOOSE i \in 1..Len(arr) : pos(i) = k]]

\* the value the claims listener builds: next[d.id] = data.playerId for the
\* documents that have one
ClaimsOfDocs(docs) ==
  LET kept == {i \in 1..Len(docs) : docs[i].playerId # ""}
  IN [uid \in {docs[i].id : i \in kept} |->
        docs[CHOOSE i \in kept : docs[i].id = uid].playerId]

\* what a listener stores from its snapshot
Stored(src, value) == IF src = "claims" THEN ClaimsOfDocs(value) ELSE value

\* the argument of onData: days sorted by day, each with its matches sorted
\* by matchNo
Assembled(c) ==
  LET sortedDays == SortBy(c.days, "day")
      matchesOf(d) == SortBy(SelectSeq(c.matches, LAMBDA m : m.day = d.day), "matchNo")
  IN [base |-> c.base[1], players |-> c.players,
      days |-> [i \in 1..Len(sortedDays) |->
                 [id |-> sortedDays[i].id, day |-> sortedDays[i].day,
                  matches |-> matchesOf(sortedDays[i])]],
      claims |-> c.claims]

\* emit(): nothing when base is null, else onData(...); tick tells one call
\* from the next
emit(c, last) ==
  IF c.base = None THEN last
  ELSE [fn |-> "onData", tick |-> 1 - last.tick, data |-> Assembled(c)]

\* let base = null; let players = []; let days = []; let matches = [];
\* let claims = {}; every listener has its first snapshot to come
InitSubscribe ==
  /\ pc = "subscribed"
  /\ db \in {[src \in Sources |-> IF src \in held THEN Filled(src) ELSE <<>>] :
              held \in SUBSET Sources}
  /\ clients = [base |-> None, players |-> <<>>, days |-> <<>>, matches |-> <<>>,
                claims |-> EmptyMap, pending |-> Sources, fired |-> {}]
  /\ ret = [fn |-> "none", tick |-> 0, data |-> <<>>]
  /\ edits = 0
  /\ match = NoMatch
  /\ activeHole = 1
  /\ computed = NoCall
  /\ arg = NoCall

\* somebody writes or deletes the tournament document or the documents of
\* a collection; the listener of that source has a snapshot to come
ChangeSource(src) ==
  /\ pc = "subscribed"
  /\ edits < MaxChanges
  /\ db' = [db EXCEPT ![src] = IF db[src] = <<>> THEN Filled(src) ELSE <<>>]
  /\ clients' = [clients EXCEPT !.pending = @ \cup {src}]
  /\ edits' = edits + 1
  /\ UNCHANGED <<match, activeHole, computed, pc, arg, ret>>

\* the snapshot callback of a source: store the value, then emit()
OnSnapshot(src) ==
  /\ pc = "subscribed"
  /\ src \in clients.pending
  /\ LET c == [clients EXCEPT ![src] = Stored(src, db[src]),
                               !.pending = @ \ {src}, !.fired = @ \cup {src}]
     IN /\ clients' = c
        /\ ret' = emit(c, ret)
  /\ UNCHANGED <<match, activeHole, computed, edits, pc, arg, db>>

\* the function subscribeTournament returns: unsubs.forEach((fn) => fn())
Unsubscribe ==
  /\ pc = "subscribed"
  /\ pc' = "unsubscribed"
  /\ UNCHANGED <<match, activeHole, computed, edits, arg, ret, db, clients>>

NextSubscribe ==
  \/ \E src \in Sources : ChangeSource(src)
  \/ \E src \in Sources : OnSnapshot(src)
  \/ Unsubscribe

SpecSubscribe == InitSubscribe /\ [][NextSubscribe]_vars

\* ------------------------------------------------------------------------
\* Seeding (App.jsx): one page with its React state in clients, the
\* tournament document in db, the last call of seedTournament in ret.
\* Other pages show up as writes of the document.
\* ------------------------------------------------------------------------
\* s.trim(), for the blank
RECURSIVE Trim(_)
Trim(s) ==
  IF Len(s) > 0 /\ SubSeq(s, 1, 1) = " " THEN Trim(SubSeq(s, 2, Len(s)))
  ELSE IF Len(s) > 0 /\ SubSeq(s, Len(s), Len(s)) = " " THEN Trim(SubSeq(s, 1, Len(s) - 1))
  ELSE s

\* s.toUpperCase(), for the letters typed here
RECURSIVE ToUpperCase(_)
ToUpperCase(s) ==
  LET c == SubSeq(s, 1, 1)
      upper == CASE c = "r" -> "R" [] c = "e" -> "E" [] c = "s" -> "S" [] c = "d" -> "D"
                 [] c = "y" -> "Y" [] OTHER -> c
  IN IF Len(s) = 0 THEN s ELSE upper \o ToUpperCase(SubSeq(s, 2, Len(s)))

\* the Yes, Reseed button is enabled whatever was typed
Mut_canConfirmReseed(reseedText) == TRUE

\* reseedText.trim().toUpperCase() === "RESEED"
canConfirmReseed(reseedText) == ToUpperCase(Trim(reseedText)) = "RESEED"

\* the claims field another page may have written
OtherClaims == {EmptyMap, ("u2" :> "p1")}

\* useState(...) of App, and where an asynchronous doSeed stands: at
\* "claims" before the getDoc of line 123, at "seed" before seedTournament,
\* at "recheck" before the getDoc of line 148
FreshPage ==
  [fbUser |-> None, loadingTournament |-> TRUE, tournamentExists |-> FALSE,
   tournamentMeta |-> None, seedBusy |-> FALSE, seedMsg |-> "",
   reseedOpen |-> FALSE, reseedText |-> "", preserveClaims |-> TRUE,
   at |-> "idle", uid |-> NullId, keepClaims |-> FALSE, existingClaims |-> EmptyMap,
   fromModal |-> FALSE]

\* { ownerUserId: data.ownerUserId || null } of the document, if there is one
MetaOf(document) ==
  IF document = None THEN None ELSE Some([ownerUserId |-> document[1].ownerUserId])

\* !!fbUser?.uid && !!tournamentMeta?.ownerUserId
\*   && tournamentMeta.ownerUserId === fbUser.uid
isOwner(c) ==
  /\ c.fbUser # None
  /\ c.tournamentMeta # None
  /\ c.tournamentMeta[1].ownerUserId # NullId
  /\ c.tournamentMeta[1].ownerUserId = c.fbUser[1]

\* the branch openSeedFlow takes
openSeedFlow_branch(c) ==
  IF c.fbUser = None THEN "signIn"
  ELSE IF ~isOwner(c) THEN "notOwner"
  ELSE IF ~c.tournamentExists THEN "firstSeed"
  ELSE "modal"

\* doSeed up to its first await; the finally block when it returns early,
\* and then the rest of confirmReseed
doSeed_start(c, keepClaims, fromModal) ==
  LET closed == IF fromModal THEN [c EXCEPT !.reseedOpen = FALSE, !.reseedText = ""] ELSE c
  IN
  IF c.fbUser = None THEN [closed EXCEPT !.seedMsg = "signIn", !.seedBusy = FALSE]
  ELSE IF ~isOwner(c) THEN [closed EXCEPT !.seedMsg = "notOwner", !.seedBusy = FALSE]
  ELSE [c EXCEPT !.seedBusy = TRUE, !.seedMsg = "", !.at = "claims", !.uid = c.fbUser[1],
                 !.keepClaims = keepClaims, !.fromModal = fromModal]

\* the finally block of doSeed and, after a reseed, the end of confirmReseed
doSeed_end(c) ==
  LET done == [c EXCEPT !.seedBusy = FALSE, !.at = "idle"]
  IN IF c.fromModal THEN [done EXCEPT !.reseedOpen = FALSE, !.reseedText = ""] ELSE done

InitSeed ==
  /\ pc = "app"
  /\ db \in {None} \cup {Some([ownerUserId |-> o, claims |-> cl]) :
                            o \in Users \cup {NullId}, cl \in OtherClaims}
  /\ clients = FreshPage
  /\ ret = NoCall
  /\ edits = 0
  /\ match = NoMatch
  /\ activeHole = 1
  /\ computed = NoCall
  /\ arg = NoCall

\* onAuthStateChanged: setFbUser(u || null)
OnAuthStateChanged ==
  /\ pc = "app"
  /\ \E u \in {None} \cup {Some(x) : x \in Users} :
       /\ u # clients.fbUser
       /\ clients' = [clients EXCEPT !.fbUser = u]
  /\ UNCHANGED <<match, activeHole, computed, edits, pc, arg, ret, db>>

\* the effect that reads the tournament document once, getDoc succeeding
CheckTournament ==
  /\ pc = "app"
  /\ clients.loadingTournament
  /\ clients' = [clients EXCEPT !.tournamentExists = (db # None),
                                 !.tournamentMeta = MetaOf(db),
                                 !.loadingTournament = FALSE]
  /\ UNCHANGED <<match, activeHole, computed, edits, pc, arg, ret, db>>

\* the same effect, getDoc failing
CheckTournamentFails ==
  /\ pc = "app"
  /\ clients.loadingTournament
  /\ clients' = [clients EXCEPT !.tournamentExists = FALSE, !.tournamentMeta = None,
                                 !.loadingTournament = FALSE]
  /\ UNCHANGED <<match, activeHole, computed, edits, pc, arg, ret, db>>

\* the Seed / Reseed Firestore button, rendered for the owner and disabled
\* while seedBusy: openSeedFlow
ClickSeed ==
  /\ pc = "app"
  /\ clients.fbUser # None
  /\ isOwner(clients)
  /\ ~clients.seedBusy
  /\ clients' =
       LET branch == openSeedFlow_branch(clients) IN
       IF branch \in {"signIn", "notOwner"} THEN [clients EXCEPT !.seedMsg = branch]
       ELSE IF branch = "firstSeed" THEN doSeed_start(clients, FALSE, FALSE)
       ELSE [clients EXCEPT !.reseedText = "", !.preserveClaims = TRUE, !.reseedOpen = TRUE]
  /\ UNCHANGED <<match, activeHole, computed, edits, pc, arg, ret, db>>

\* typing into the field of the modal
TypeReseedText ==
  /\ pc = "app"
  /\ clients.reseedOpen
  /\ ~clients.seedBusy
  /\ \E t \in {"", "RESEED", " reseed ", "RESEE", "yes"} \ {clients.reseedText} :
       clients' = [clients EXCEPT !.reseedText = t]
  /\ UNCHANGED <<match, activeHole, computed, edits, pc, arg, ret, db>>

\* the Preserve player claims checkbox
TogglePreserveClaims ==
  /\ pc = "app"
  /\ clients.reseedOpen
  /\ ~clients.seedBusy
  /\ clients' = [clients EXCEPT !.preserveClaims = ~@]
  /\ UNCHANGED <<match, activeHole, computed, edits, pc, arg, ret, db>>

\* Cancel, or a click on the backdrop
CancelReseed ==
  /\ pc = "app"
  /\ clients.reseedOpen
  /\ ~clients.seedBusy
  /\ clients' = [clients EXCEPT !.reseedOpen = FALSE]
  /\ UNCHANGED <<match, activeHole, computed, edits, pc, arg, ret, db>>

\* Yes, Reseed, disabled unless canConfirmReseed: confirmReseed
ConfirmReseed ==
  /\ pc = "app"
  /\ clients.reseedOpen
  /\ ~clients.seedBusy
  /\ canConfirmReseed(clients.reseedText)
  /\ clients' = doSeed_start(clients, clients.preserveClaims, TRUE)
  /\ UNCHANGED <<match, activeHole, computed, edits, pc, arg, ret, db>>

\* doSeed, lines 121-130: the claims of the document, {} if the read fails
\* or there is no document
DoSeedReadClaims ==
  /\ pc = "app"
  /\ clients.at = "claims"
  /\ \E readOk \in BOOLEAN :
       clients' = [clients EXCEPT !.at = "seed",
                     !.existingClaims = IF readOk /\ db # None THEN db[1].claims
                                        ELSE EmptyMap]
  /\ UNCHANGED <<match, activeHole, computed, edits, pc, arg, ret, db>>

\* doSeed, lines 132-145: seedTournament(TOURNAMENT_ID, tournament) with
\* ownerUserId and claims set; if it throws, the catch and the finally
DoSeedTournament ==
  /\ pc = "app"
  /\ clients.at = "seed"
  /\ ret' = [fn |-> "seedTournament", ownerUserId |-> clients.uid,
             claims |-> IF clients.keepClaims THEN clients.existingClaims ELSE EmptyMap,
             keepClaims |-> clients.keepClaims, overExisting |-> (db # None),
             reseedOpen |-> clients.reseedOpen, reseedText |-> clients.reseedText]
  /\ \E writeOk \in BOOLEAN :
       IF writeOk
       THEN /\ db' = Some([ownerUserId |-> ret'.ownerUserId, claims |-> ret'.claims])
            /\ clients' = [clients EXCEPT !.at = "recheck",
                             !.seedMsg = IF clients.keepClaims THEN "preserved"
                                         ELSE "cleared"]
       ELSE /\ db' = db
            /\ clients' = doSeed_end([clients EXCEPT !.seedMsg = "failed"])
  /\ UNCHANGED <<match, activeHole, computed, edits, pc, arg>>

\* doSeed, lines 147-159: the recheck, then the finally
DoSeedRecheck ==
  /\ pc = "app"
  /\ clients.at = "recheck"
  /\ \E readOk \in BOOLEAN :
       clients' =
         IF readOk
         THEN doSeed_end([clients EXCEPT !.tournamentExists = (db # None),
                            !.tournamentMeta = IF db # None THEN MetaOf(db) ELSE @])
         ELSE doSeed_end([clients EXCEPT !.seedMsg = "failed"])
  /\ UNCHANGED <<match, activeHole, computed, edits, pc, arg, ret, db>>

\* another page or tool writes the tournament document
OtherClientSeeds ==
  /\ pc = "app"
  /\ \E o \in Users, cl \in OtherClaims :
       /\ db # Some([ownerUserId |-> o, claims |-> cl])
       /\ db' = Some([ownerUserId |-> o, claims |-> cl])
  /\ UNCHANGED <<match, activeHole, computed, edits, pc, arg, ret, clients>>

NextSeed ==
  \/ OnAuthStateChanged
  \/ CheckTournament
  \/ CheckTournamentFails
  \/ ClickSeed
  \/ TypeReseedText
  \/ TogglePreserveClaims
  \/ CancelReseed
  \/ ConfirmReseed
  \/ DoSeedReadClaims
  \/ DoSeedTournament
  \/ DoSeedRecheck
  \/ OtherClientSeeds

SpecSeed == InitSeed /\ [][NextSeed]_vars

\* ------------------------------------------------------------------------
\* A match-play card on which further holes become played: the card starts
\* decided or dormie with holes left, each step one more hole gets an
\* outcome and status and points are derived again.
\* ------------------------------------------------------------------------
\* status and points as the memo derives them from the hole outcomes
CardResult(holes, sideA, sideB) ==
  LET status == matchStatusFromHoles(holes, sideA.id, sideB.id)
  IN [status |-> status, points |-> pointsForFinalMatch(status, sideA, sideB)]

\* the played holes lie on the card from hole 1 (shift 0) or from hole 6
DecidedCards ==
  LET m == InitialMatch(1, 1)
      tallies == {t \in (0..NumHoles) \X (0..NumHoles) \X (0..NumHoles) :
                    /\ t[1] + t[2] + t[3] > 0
                    /\ t[1] + t[2] + t[3] < NumHoles
                    /\ Abs(t[1] - t[2]) >= NumHoles - (t[1] + t[2] + t[3])}
  IN {[holes |-> HolesInput(t[1], t[2], t[3], shift, m.sideA.id, m.sideB.id),
       sideA |-> m.sideA, sideB |-> m.sideB] : t \in tallies, shift \in {0, 5}}

InitMarks ==
  /\ pc = "card"
  /\ \E c \in DecidedCards :
       /\ arg = [fn |-> "card", holes |-> c.holes, start |-> c.holes,
                 sideA |-> c.sideA, sideB |-> c.sideB]
       /\ ret = CardResult(c.holes, c.sideA, c.sideB)
  /\ match = NoMatch
  /\ activeHole = 1
  /\ computed = NoCall
  /\ edits = 0
  /\ db = NoDb
  /\ clients = NoClients

\* a hole not played so far becomes played, won by a side or halved
MarkHole ==
  /\ pc = "card"
  /\ edits < MaxMarks
  /\ \E i \in 1..NumHoles, w \in {arg.sideA.id, arg.sideB.id, NullId} :
       /\ ~arg.holes[i].played
       /\ arg' = [arg EXCEPT !.holes[i] = [played |-> TRUE, winnerSideId |-> w]]
       /\ ret' = CardResult(arg'.holes, arg.sideA, arg.sideB)
  /\ edits' = edits + 1
  /\ UNCHANGED <<match, activeHole, computed, pc, db, clients>>

NextMarks == MarkHole

SpecMarks == InitMarks /\ [][NextMarks]_vars

\* ------------------------------------------------------------------------
\* Properties of matchStatusFromHoles and pointsForFinalMatch (SpecCalls)
\* ------------------------------------------------------------------------
StatusReturned == pc = "return" /\ arg.fn = "matchStatusFromHoles"

\* the tallies of the argument, counted as sets of hole positions
WonBy(holes, sideId) ==
  Cardinality({i \in DOMAIN holes : holes[i].played /\ holes[i].winnerSideId = sideId})

PlayedIn(holes) == Cardinality({i \in DOMAIN holes : holes[i].played})

ArgDiff == WonBy(arg.holes, arg.sideA.id) - WonBy(arg.holes, arg.sideB.id)

ArgPlayed == PlayedIn(arg.holes)

ArgRemaining == 18 - ArgPlayed

ArgAhead == IF ArgDiff > 0 THEN arg.sideA.id ELSE arg.sideB.id

ArgAbsDiff == IF ArgDiff < 0 THEN 0 - ArgDiff ELSE ArgDiff

WonFirstTen ==
  arg.holes = [i \in 1..18 |->
                IF i <= 10 THEN [played |-> TRUE, winnerSideId |-> arg.sideA.id]
                ELSE [played |-> FALSE, winnerSideId |-> NullId]]

\* C1: with at least one hole played and abs(diff) > remaining, both copies of
\* matchStatusFromHoles return a final, untied status with text
\* "Final {abs(diff)}&{remaining}" and the side with more holes as leader;
\* side A winning holes 1..10 and nothing else played gives "Final 10&8", leader A.
C1_Closeout ==
  StatusReturned =>
    /\ (ArgPlayed > 0 /\ ArgAbsDiff > ArgRemaining) =>
         /\ ret.status.isFinal
         /\ ~ret.status.isTied
         /\ ret.status.text =
              "Final " \o ToString(ArgAbsDiff) \o "&" \o ToString(ArgRemaining)
         /\ ret.status.leaderSideId = ArgAhead
         /\ ret.proto = ret.status
    /\ WonFirstTen =>
         /\ ret.status.isFinal
         /\ ret.status.text = "Final 10&8"
         /\ ret.status.leaderSideId = arg.sideA.id

C1_Witness ==
  /\ StatusReturned
  /\ WonFirstTen
  /\ ret.status.text = "Final 10&8"

\* a closeout in favour of side B, reached before the 18th hole
C1_WitnessB ==
  /\ StatusReturned
  /\ ArgDiff < 0
  /\ ArgAbsDiff > ArgRemaining
  /\ ArgRemaining > 0
  /\ ret.status.leaderSideId = arg.sideB.id

\* C2: with all 18 holes played and diff # 0, the status is final with text
\* "Final {abs(diff)} Up" and the side ahead as leader.
C2_FinalUp ==
  (StatusReturned /\ ArgPlayed = 18 /\ ArgDiff # 0) =>
    /\ ret.status.isFinal
    /\ ret.status.text = "Final " \o ToString(ArgAbsDiff) \o " Up"
    /\ ret.status.leaderSideId = ArgAhead

\* C3: with all 18 holes played and as many holes won by each side, the status
\* is final, tied, without leader, "Final (Tied)", and each team gets 0.5.
C3_TiedAtEighteen ==
  (StatusReturned /\ ArgPlayed = 18 /\ ArgDiff = 0) =>
    /\ ret.status.isFinal
    /\ ret.status.isTied
    /\ ret.status.leaderSideId = NullId
    /\ ret.status.text = "Final (Tied)"
    /\ ret.points[arg.sideA.teamId] = HalfPoint
    /\ ret.points[arg.sideB.teamId] = HalfPoint

C3_Witness ==
  /\ StatusReturned
  /\ ArgPlayed = 18
  /\ WonBy(arg.holes, arg.sideA.id) = 9
  /\ WonBy(arg.holes, arg.sideB.id) = 9
  /\ ret.status.text = "Final (Tied)"

\* C4: with no hole played, both copies return "Not Started", not final, no
\* leader, tied, aHoles = bHoles = 0, and both teams get 0 points.
C4_NotStarted ==
  (StatusReturned /\ ArgPlayed = 0) =>
    /\ ret.status.text = "Not Started"
    /\ ~ret.status.isFinal
    /\ ret.status.leaderSideId = NullId
    /\ ret.status.isTied
    /\ ret.status.aHoles = 0
    /\ ret.status.bHoles = 0
    /\ ret.status.played = 0
    /\ ret.proto = ret.status
    /\ ret.points[arg.sideA.teamId] = NoPoint
    /\ ret.points[arg.sideB.teamId] = NoPoint

C4_Witness ==
  /\ StatusReturned
  /\ ArgPlayed = 0
  /\ ret.status.text = "Not Started"

\* C5: with 0 < played < 18 and abs(diff) <= remaining the status is not final:
\* "AS Thru {played}", tied, no leader when diff = 0, else
\* "{abs(diff)} Up Thru {played}" with the side ahead as leader; dormie
\* (abs(diff) = remaining, holes left) is in progress.
C5_InProgress ==
  (StatusReturned /\ 0 < ArgPlayed /\ ArgPlayed < 18 /\ ArgAbsDiff <= ArgRemaining) =>
    /\ ~ret.status.isFinal
    /\ ArgDiff = 0 =>
         /\ ret.status.text = "AS Thru " \o ToString(ArgPlayed)
         /\ ret.status.isTied
         /\ ret.status.leaderSideId = NullId
    /\ ArgDiff # 0 =>
         /\ ret.status.text =
              ToString(ArgAbsDiff) \o " Up Thru " \o ToString(ArgPlayed)
         /\ ~ret.status.isTied
         /\ ret.status.leaderSideId = ArgAhead

\* dormie: the lead equals the holes left
C5_Witness ==
  /\ StatusReturned
  /\ ArgPlayed < 18
  /\ ArgDiff # 0
  /\ ArgAbsDiff = ArgRemaining
  /\ ~ret.status.isFinal

\* C10: stablefordFromDiff is the step function 10, 6, 3, 1, -1, -2 at
\* -3, -2, -1, 0, 1, 2, constant above 2 and below -3, in both copies.
C10_StablefordSteps ==
  (pc = "return" /\ arg.fn = "stablefordFromDiff") =>
    LET x == arg.diff
        f == IF x < -3 THEN 10
             ELSE CASE x = -3 -> 10 [] x = -2 -> 6 [] x = -1 -> 3
                    [] x = 0 -> 1 [] x = 1 -> -1 [] x = 2 -> -2 [] OTHER -> -2
    IN ret.app = f /\ ret.proto = f

C10_Witness ==
  /\ pc = "return"
  /\ arg.fn = "stablefordFromDiff"
  /\ arg.diff = -3
  /\ ret.app = 10
  /\ ret.proto = 10

\* the whole rounds of 18 strokes in hcp, found by counting up
RECURSIVE RoundsIn(_, _)
RoundsIn(hcp, q) == IF 18 * (q + 1) > hcp THEN q ELSE RoundsIn(hcp, q + 1)

\* C11: for a course handicap c >= 0 and a hole rank r in 1..18, both copies of
\* strokesReceivedOnHole return q + 1 when r <= c - 18q and q otherwise, q
\* being the whole number of times 18 goes into c; with c = 20 the ranks 1
\* and 2 receive 2 strokes and every other rank 1.
C11_StrokesReceived ==
  (pc = "return" /\ arg.fn = "strokesReceivedOnHole") =>
    LET c == arg.courseHcp
        r == arg.holeHcpRank
        q == RoundsIn(c, 0)
        expected == IF r <= c - 18 * q THEN q + 1 ELSE q
    IN /\ ret.app = expected
       /\ ret.proto = expected
       /\ c = 20 => ret.app = (IF r \in {1, 2} THEN 2 ELSE 1)

\* handicap 20 on the hole ranked 2: the last hole with a second stroke
C11_Witness ==
  /\ pc = "return"
  /\ arg.fn = "strokesReceivedOnHole"
  /\ arg.courseHcp = 20
  /\ arg.holeHcpRank = 2
  /\ ret.app = 2

\* the step function of the stableford table
StablefordTable(x) ==
  IF x < -3 THEN 10
  ELSE CASE x = -3 -> 10 [] x = -2 -> 6 [] x = -1 -> 3
         [] x = 0 -> 1 [] x = 1 -> -1 [] x = 2 -> -2 [] OTHER -> -2

EngineReturned(format) == pc = "return" /\ arg.fn = "engine" /\ arg.match.format = format

\* the raw entries of a side of the scramble match handed to the engine
ArgRowOf(sideId) ==
  IF sideId \in DOMAIN arg.match.scrambleGrossBySide
  THEN arg.match.scrambleGrossBySide[sideId] ELSE EmptyMap

\* the holes of the course on which both sides have an entry
ArgBothIn ==
  {h \in 1..18 : h \in DOMAIN ArgRowOf(arg.match.sideA.id)
                   /\ h \in DOMAIN ArgRowOf(arg.match.sideB.id)}

\* the stableford points of a side summed over the holes of S
RECURSIVE ArgPointsOver(_, _)
ArgPointsOver(sideId, S) ==
  IF S = {} THEN 0
  ELSE LET h == CHOOSE x \in S : TRUE IN
    StablefordTable(ArgRowOf(sideId)[h] - COURSES[arg.match.day].holes[h].par)
      + ArgPointsOver(sideId, S \ {h})

\* C12: for a Scramble-Stableford match the status sums each side's points
\* over exactly the holes with an entry of both sides; without such a hole
\* it is EM_DASH, not final, tied; otherwise it is final iff all 18 holes are
\* played, the leader is the side with strictly more points, and level
\* totals are tied without leader.
C12_StablefordTotals ==
  EngineReturned("SCRAMBLE_STABLEFORD") =>
    LET aT == ArgPointsOver(arg.match.sideA.id, ArgBothIn)
        bT == ArgPointsOver(arg.match.sideB.id, ArgBothIn)
        n == Cardinality(ArgBothIn)
        st == ret.status
    IN /\ n = 0 => st.text = EM_DASH /\ ~st.isFinal /\ st.isTied
       /\ n > 0 =>
            /\ st.aTotalPts = aT
            /\ st.bTotalPts = bT
            /\ st.played = n
            /\ st.leaderSideId = IF aT > bT THEN arg.match.sideA.id
                                 ELSE IF bT > aT THEN arg.match.sideB.id
                                 ELSE NullId
            /\ st.isTied <=> (aT = bT)
       /\ st.isFinal <=> (n = 18)

\* a lead of more points than the holes left can bring back at one point a
\* hole, not final, with a hole only one side has entered left out of the sums
C12_Witness ==
  /\ EngineReturned("SCRAMBLE_STABLEFORD")
  /\ ret.status.played = 16
  /\ ret.status.aTotalPts - ret.status.bTotalPts > 40
  /\ ~ret.status.isFinal
  /\ ret.status.leaderSideId = arg.match.sideA.id
  /\ \E h \in 1..18 : h \in DOMAIN ArgRowOf(arg.match.sideB.id) /\ h \notin ArgBothIn

\* level totals after 18 holes: final, tied, no leader
C12_WitnessTied ==
  /\ EngineReturned("SCRAMBLE_STABLEFORD")
  /\ ret.status.played = 18
  /\ ret.status.isFinal
  /\ ret.status.isTied
  /\ ret.status.leaderSideId = NullId

\* the sides handed to pointsForFinalMatch by either kind of call
PointsReturned == pc = "return" /\ arg.fn \in {"matchStatusFromHoles", "engine"}

ArgSideA == IF arg.fn = "engine" THEN arg.match.sideA ELSE arg.sideA

ArgSideB == IF arg.fn = "engine" THEN arg.match.sideB ELSE arg.sideB

\* C13: on every status of either tracker pointsForFinalMatch returns points
\* for exactly the two teams: 0 and 0 when the status is not final, 0.5 and
\* 0.5 when it is final and tied, else 1 for the team of the leader side and
\* 0 for the other; a scramble match finished 14 to 9 for side A gives side
\* A's team 1 and side B's team 0.
C13_PointsTotal ==
  PointsReturned =>
    LET st == ret.status
        teamA == ArgSideA.teamId
        teamB == ArgSideB.teamId
    IN /\ DOMAIN ret.points = {teamA, teamB}
       /\ ~st.isFinal => ret.points[teamA] = NoPoint /\ ret.points[teamB] = NoPoint
       /\ (st.isFinal /\ st.isTied) =>
            ret.points[teamA] = HalfPoint /\ ret.points[teamB] = HalfPoint
       /\ (st.isFinal /\ ~st.isTied) =>
            /\ st.leaderSideId \in {ArgSideA.id, ArgSideB.id}
            /\ st.leaderSideId = ArgSideA.id =>
                 ret.points[teamA] = FullPoint /\ ret.points[teamB] = NoPoint
            /\ st.leaderSideId = ArgSideB.id =>
                 ret.points[teamB] = FullPoint /\ ret.points[teamA] = NoPoint
       /\ (arg.fn = "engine" /\ arg.match.format = "SCRAMBLE_STABLEFORD"
             /\ Cardinality(ArgBothIn) = 18
             /\ ArgPointsOver(ArgSideA.id, ArgBothIn) = 14
             /\ ArgPointsOver(ArgSideB.id, ArgBothIn) = 9) =>
            /\ st.isFinal
            /\ st.leaderSideId = ArgSideA.id
            /\ ret.points[teamA] = FullPoint
            /\ ret.points[teamB] = NoPoint

\* the scramble match finished 14 to 9
C13_Witness ==
  /\ EngineReturned("SCRAMBLE_STABLEFORD")
  /\ ret.status.played = 18
  /\ ret.status.aTotalPts = 14
  /\ ret.status.bTotalPts = 9
  /\ ret.points[ArgSideA.teamId] = FullPoint
  /\ ret.points[ArgSideB.teamId] = NoPoint

\* a match-play closeout for side B
C13_WitnessMatchPlay ==
  /\ StatusReturned
  /\ ret.status.isFinal
  /\ ret.status.leaderSideId = arg.sideB.id
  /\ ret.points[arg.sideB.teamId] = FullPoint
  /\ ret.points[arg.sideA.teamId] = NoPoint

TotalsReturned == pc = "return" /\ arg.fn = "computeTournamentTotals"

\* the sum of f over the set S
RECURSIVE SumOver(_, _)
SumOver(f, S) ==
  IF S = {} THEN 0
  ELSE LET x == CHOOSE y \in S : TRUE IN f[x] + SumOver(f, S \ {x})

\* the points of a team on the cards of day k
CardPoints(k, team) ==
  [i \in DOMAIN ret.totals.daySummaries[k].matchCards |->
     ret.totals.daySummaries[k].matchCards[i].points[team]]

\* C14: each day total of a team is the sum of its points over the day's
\* matches, each match scored by the tracker of its format; each grand total
\* is the sum of the team's day totals; the leader label names the team with
\* the strictly higher grand total, "Tied" when they are equal.
C14_TournamentTotals ==
  TotalsReturned =>
    LET t == ret.totals
        days == arg.tournament.days
    IN /\ Len(t.daySummaries) = Len(days)
       /\ \A k \in DOMAIN days :
            LET ds == t.daySummaries[k] IN
            /\ Len(ds.matchCards) = Len(days[k].matches)
            /\ ds.jc = SumOver(CardPoints(k, "JC"), DOMAIN ds.matchCards)
            /\ ds.sg = SumOver(CardPoints(k, "SG"), DOMAIN ds.matchCards)
            /\ \A i \in DOMAIN ds.matchCards :
                 LET m == days[k].matches[i]
                     card == ds.matchCards[i]
                 IN /\ card.status =
                         (IF m.format = "SCRAMBLE_STABLEFORD"
                          THEN stablefordTotalsStatusFromHoles(card.holes, m.sideA.id, m.sideB.id)
                          ELSE matchStatusFromHoles(HoleOutcomes(card.holes),
                                                    m.sideA.id, m.sideB.id))
                    /\ card.points = pointsForFinalMatch(card.status, m.sideA, m.sideB)
       /\ t.totalJC = SumOver([k \in DOMAIN days |-> t.daySummaries[k].jc], DOMAIN days)
       /\ t.totalSG = SumOver([k \in DOMAIN days |-> t.daySummaries[k].sg], DOMAIN days)
       /\ ret.leader = IF t.totalJC > t.totalSG THEN "JCGC"
                       ELSE IF t.totalSG > t.totalJC THEN "SGC"
                       ELSE "Tied"

\* grand totals level at 10 points each, from days that are not level
C14_Witness ==
  /\ TotalsReturned
  /\ ret.totals.totalJC = 10 * FullPoint
  /\ ret.totals.totalSG = 10 * FullPoint
  /\ ret.totals.daySummaries[1].jc # ret.totals.daySummaries[1].sg
  /\ ret.leader = "Tied"

\* team SG ahead overall after losing a day
C14_WitnessLeader ==
  /\ TotalsReturned
  /\ ret.totals.totalSG > ret.totals.totalJC
  /\ ret.totals.daySummaries[2].jc > ret.totals.daySummaries[2].sg
  /\ ret.leader = "SGC"

\* the players of a side the roster knows and who have an entry on hole h
ArgKnownEntered(side, h) ==
  {pid \in {side.playerIds[k] : k \in DOMAIN side.playerIds} :
     /\ pid \in DOMAIN arg.playersById
     /\ GrossLookup(RawGross(arg.match), pid, h) # None}

ArgUnknownPlayers ==
  (PlayerIdsOf(arg.match)) \ DOMAIN arg.playersById

\* C17: with players missing from the roster or entries under hole numbers
\* outside 1..18, an unknown player's entries count as not entered: a
\* fourball hole is played iff each side has a known player with an entry,
\* a singles hole with an unknown player is not played, and a scramble hole
\* is played iff both sides have an entry; 18 hole results come back.
C17_UnknownAsMissing ==
  (pc = "return" /\ arg.fn = "engine") =>
    /\ DOMAIN ret.holes = 1..18
    /\ \A h \in 1..18 :
         LET m == arg.match
             r == ret.holes[h]
         IN CASE m.format = "FOURBALL_NET" ->
                   r.played <=> (ArgKnownEntered(m.sideA, h) # {}
                                  /\ ArgKnownEntered(m.sideB, h) # {})
              [] m.format = "SINGLES_NET" ->
                   r.played <=> (ArgKnownEntered(m.sideA, h) # {}
                                  /\ ArgKnownEntered(m.sideB, h) # {})
              [] OTHER ->
                   r.played <=> (GrossLookup(m.scrambleGrossBySide, m.sideA.id, h) # None
                                  /\ GrossLookup(m.scrambleGrossBySide, m.sideB.id, h) # None)

\* the fourball part of the same statement, which the code keeps
C17_FourballUnknown ==
  EngineReturned("FOURBALL_NET") =>
    \A h \in 1..18 :
      ret.holes[h].played <=> (ArgKnownEntered(arg.match.sideA, h) # {}
                                /\ ArgKnownEntered(arg.match.sideB, h) # {})

\* ------------------------------------------------------------------------
\* Properties of the hole results of the open match (Spec)
\* ------------------------------------------------------------------------
PageOn(format) == pc = "page" /\ match.format = format

\* the raw entry of a key on a hole, read off the stored map
Entered(key, hole) == key \in DOMAIN RawGross(match) /\ hole \in DOMAIN RawGross(match)[key]

EntryOf(key, hole) == RawGross(match)[key][hole]

RankOf(hole) == COURSES[match.day].holes[hole].hcpRank

ParOf(hole) == COURSES[match.day].holes[hole].par

\* gross minus floor(hcp / 18), minus one more on the hcp mod 18 hardest holes
ExpectedNet(pid, hole) ==
  LET hcp == playersById[pid].courseHcp IN
  EntryOf(pid, hole) - (hcp \div 18) - (IF RankOf(hole) <= hcp % 18 THEN 1 ELSE 0)

EnteredOf(side, hole) == {side.playerIds[k] : k \in DOMAIN side.playerIds} \cap
                           {pid \in DOMAIN playersById : Entered(pid, hole)}

LeastOf(S) == CHOOSE x \in S : \A y \in S : x <= y

BestNetOf(side, hole) == LeastOf({ExpectedNet(pid, hole) : pid \in EnteredOf(side, hole)})

HalvedHoles ==
  {i \in 1..18 : computed.holes[i].played /\ computed.holes[i].winnerSideId = NullId}

AllPlayed == \A i \in 1..18 : computed.holes[i].played

\* C6: in a Fourball-Net or Singles-Net match with all 18 holes played,
\* aHoles + bHoles + the number of played holes without winner is 18.
C6_HolesAddUp ==
  (pc = "page" /\ match.format \in {"FOURBALL_NET", "SINGLES_NET"} /\ AllPlayed) =>
    computed.status.aHoles + computed.status.bHoles + Cardinality(HalvedHoles) = 18

\* a complete match in which each side won a hole and a hole was halved,
\* after a score was entered on the page
C6_Witness ==
  /\ pc = "page"
  /\ match.format \in {"FOURBALL_NET", "SINGLES_NET"}
  /\ AllPlayed
  /\ edits > 0
  /\ computed.status.aHoles > 0
  /\ computed.status.bHoles > 0
  /\ HalvedHoles # {}

\* C7: in a Fourball-Net match a hole is played iff each side has a player
\* with a gross entry on it; each side's value is the least net among its
\* players with an entry; the strictly lower value wins, equal values halve.
C7_FourballHole ==
  PageOn("FOURBALL_NET") =>
    \A h \in 1..18 :
      LET r == computed.holes[h]
          aIn == EnteredOf(match.sideA, h)
          bIn == EnteredOf(match.sideB, h)
      IN /\ r.played <=> (aIn # {} /\ bIn # {})
         /\ ~r.played => r.winnerSideId = NullId
         /\ r.played =>
              LET aVal == BestNetOf(match.sideA, h)
                  bVal == BestNetOf(match.sideB, h)
              IN /\ r.details.aBest[1].net = Some(aVal)
                 /\ r.details.bBest[1].net = Some(bVal)
                 /\ r.winnerSideId = IF aVal < bVal THEN match.sideA.id
                                     ELSE IF bVal < aVal THEN match.sideB.id
                                     ELSE NullId

\* a played hole on which side A has one entry only, a halved hole, and a
\* hole a side wins with its second player's ball
C7_Witness ==
  /\ PageOn("FOURBALL_NET")
  /\ edits > 0
  /\ \E h \in 1..18 :
       /\ computed.holes[h].played
       /\ Cardinality(EnteredOf(match.sideA, h)) = 1
  /\ \E h \in 1..18 :
       /\ computed.holes[h].played
       /\ computed.holes[h].winnerSideId = NullId
  /\ \E h \in 1..18 :
       /\ computed.holes[h].played
       /\ computed.holes[h].winnerSideId = match.sideB.id
       /\ computed.holes[h].details.bBest[1].pid = match.sideB.playerIds[2]

\* a hole with entries on one side only is not played
C7_WitnessOneSide ==
  /\ PageOn("FOURBALL_NET")
  /\ \E h \in 1..18 :
       /\ ~computed.holes[h].played
       /\ EnteredOf(match.sideA, h) # {}
       /\ EnteredOf(match.sideB, h) = {}

\* C8: in a Singles-Net match a hole is played iff both players have a gross
\* entry on it; the strictly lower net (gross minus strokes received) wins,
\* equal nets halve.
C8_SinglesHole ==
  PageOn("SINGLES_NET") =>
    \A h \in 1..18 :
      LET r == computed.holes[h]
          aPid == match.sideA.playerIds[1]
          bPid == match.sideB.playerIds[1]
      IN /\ r.played <=> (Entered(aPid, h) /\ Entered(bPid, h))
         /\ ~r.played => r.winnerSideId = NullId
         /\ r.played =>
              LET aNet == ExpectedNet(aPid, h)
                  bNet == ExpectedNet(bPid, h)
              IN /\ r.details.aNet = Some(aNet)
                 /\ r.details.bNet = Some(bNet)
                 /\ r.winnerSideId = IF aNet < bNet THEN match.sideA.id
                                     ELSE IF bNet < aNet THEN match.sideB.id
                                     ELSE NullId

\* a hole won on strokes received (with the same gross), a halved hole and
\* a hole with one entry only
C8_Witness ==
  /\ PageOn("SINGLES_NET")
  /\ edits > 0
  /\ \E h \in 1..18 :
       /\ computed.holes[h].winnerSideId = match.sideB.id
       /\ EntryOf(match.sideB.playerIds[1], h) = EntryOf(match.sideA.playerIds[1], h)
  /\ \E h \in 1..18 :
       /\ computed.holes[h].played
       /\ computed.holes[h].winnerSideId = NullId
  /\ \E h \in 1..18 :
       /\ ~computed.holes[h].played
       /\ Entered(match.sideA.playerIds[1], h) # Entered(match.sideB.playerIds[1], h)

\* C9: in a Scramble-Stableford match a hole is played iff both sides have a
\* gross entry on it; each side's points are the stableford points of
\* gross - par, without handicap; strictly more points win, equal points
\* give no winner.
C9_ScrambleHole ==
  PageOn("SCRAMBLE_STABLEFORD") =>
    \A h \in 1..18 :
      LET r == computed.holes[h]
          aId == match.sideA.id
          bId == match.sideB.id
      IN /\ r.played <=> (Entered(aId, h) /\ Entered(bId, h))
         /\ ~r.played => r.winnerSideId = NullId
         /\ r.played =>
              LET aPts == StablefordTable(EntryOf(aId, h) - ParOf(h))
                  bPts == StablefordTable(EntryOf(bId, h) - ParOf(h))
              IN /\ r.details.aPts = Some(aPts)
                 /\ r.details.bPts = Some(bPts)
                 /\ r.winnerSideId = IF aPts > bPts THEN aId
                                     ELSE IF bPts > aPts THEN bId
                                     ELSE NullId

\* a hole won with more points and a hole with equal points from different
\* gross scores
C9_Witness ==
  /\ PageOn("SCRAMBLE_STABLEFORD")
  /\ edits > 0
  /\ \E h \in 1..18 :
       /\ computed.holes[h].winnerSideId = match.sideA.id
       /\ computed.holes[h].details.aPts[1] > computed.holes[h].details.bPts[1]
  /\ \E h \in 1..18 :
       /\ computed.holes[h].played
       /\ computed.holes[h].winnerSideId = NullId
       /\ EntryOf(match.sideA.id, h) # EntryOf(match.sideB.id, h)

\* a hole with the entry of one side only is not played
C9_WitnessOneSide ==
  /\ PageOn("SCRAMBLE_STABLEFORD")
  /\ edits > 0
  /\ \E h \in 1..18 :
       /\ ~computed.holes[h].played
       /\ Entered(match.sideA.id, h) # Entered(match.sideB.id, h)

\* ------------------------------------------------------------------------
\* Clearing a match (SpecRoundTrip)
\* ------------------------------------------------------------------------
\* no key of the raw score map has an entry left
AllCleared == \A key \in DOMAIN RawGross(match) : DOMAIN RawGross(match)[key] = {}

\* C16 as stated: after score entries on a match of any format, once every
\* raw entry is unset again the status text is "Not Started" and both teams
\* have 0 points.
C16_ClearedNotStarted ==
  (pc = "page" /\ edits > 0 /\ AllCleared) =>
    /\ computed.status.text = "Not Started"
    /\ computed.points[match.sideA.teamId] = NoPoint
    /\ computed.points[match.sideB.teamId] = NoPoint

\* C16, amended: after score entries on a match, once every raw entry is
\* unset again no hole is played, the status is not final, its text is
\* "Not Started" in a Fourball-Net or Singles-Net match and EM_DASH in a
\* Scramble-Stableford match, and both teams have 0 points.
C16_ClearedReset ==
  (pc = "page" /\ edits > 0 /\ AllCleared) =>
    /\ \A h \in 1..18 : ~computed.holes[h].played
    /\ ~computed.status.isFinal
    /\ computed.status.text =
         (IF match.format = "SCRAMBLE_STABLEFORD" THEN EM_DASH ELSE "Not Started")
    /\ computed.points[match.sideA.teamId] = NoPoint
    /\ computed.points[match.sideB.teamId] = NoPoint

\* a fourball match cleared after an entry: players are still keys of the
\* map, with nothing under them
C16_Witness ==
  /\ pc = "page"
  /\ match.format = "FOURBALL_NET"
  /\ edits >= 2
  /\ Cardinality(DOMAIN RawGross(match)) >= 2
  /\ AllCleared
  /\ computed.status.text = "Not Started"

\* a scramble match cleared after both sides had entered a hole
C16_WitnessScramble ==
  /\ pc = "page"
  /\ match.format = "SCRAMBLE_STABLEFORD"
  /\ edits >= 2
  /\ DOMAIN RawGross(match) = {match.sideA.id, match.sideB.id}
  /\ AllCleared
  /\ computed.status.text = EM_DASH

\* ------------------------------------------------------------------------
\* The claim table (SpecClaims)
\* ------------------------------------------------------------------------
\* the users the stored table gives player p
ClaimersOf(claims, p) == {u \in DOMAIN claims : claims[u] = p}

\* C18: whatever the interleaving of setClaimForUser and clearMyClaim by
\* different users, each from its own snapshot, the stored claim table gives
\* every user at most one player and no player to more than one user.
C18_ClaimsUnique ==
  pc = "clients" =>
    /\ DOMAIN db.claims \subseteq Users
    /\ \A u \in DOMAIN db.claims : db.claims[u] \in ClaimPlayers
    /\ \A p \in ClaimPlayers : Cardinality(ClaimersOf(db.claims, p)) <= 1

\* a write computed from a snapshot older than the stored table has been
\* applied: u2 holds p1 while u1's app still shows p1 as its own
C18_Witness ==
  /\ pc = "clients"
  /\ db.claims = ("u2" :> "p1")
  /\ claimedPlayerId(clients["u1"].claims, "u1") = "p1"
  /\ clients["u1"].writes = <<>>

\* both users hold a player
C18_WitnessBoth ==
  /\ pc = "clients"
  /\ DOMAIN db.claims = Users
  /\ db.claims["u1"] # db.claims["u2"]

\* C19: a player the stored table gives to one user is not given to another
\* user by a claim of that other user, stale snapshot or not: the first
\* user's claim stays in place.
C19_ClaimIfAvailable ==
  [][\A p \in ClaimPlayers : \A u \in ClaimersOf(db.claims, p) :
       \A v \in Users \ {u} :
         (v \in DOMAIN db'.claims /\ db'.claims[v] = p) =>
           (u \in DOMAIN db'.claims /\ db'.claims[u] = p)]_vars

\* ------------------------------------------------------------------------
\* Concurrent score entries (SpecScorers)
\* ------------------------------------------------------------------------
\* both scorers have entered a number from the same snapshot, for different
\* (key, hole) pairs, and the server has applied both writes
BothWritesApplied ==
  /\ pc = "clients"
  /\ \A u \in Users : clients[u].lastEdit # NoCall /\ clients[u].writes = <<>>
  /\ \A u \in Users : clients[u].lastEdit.gross # None
  /\ clients["u1"].lastEdit.base = clients["u2"].lastEdit.base
  /\ <<clients["u1"].lastEdit.key, clients["u1"].lastEdit.holeNum>>
       # <<clients["u2"].lastEdit.key, clients["u2"].lastEdit.holeNum>>

\* C20: when two scorers write gross scores for distinct (player-or-side,
\* hole) keys of one match, each from the same snapshot, the stored match
\* has both entries once both writes are applied.
C20_BothEntriesKept ==
  BothWritesApplied =>
    \A u \in Users :
      GrossLookup(RawGross(db.match), clients[u].lastEdit.key, clients[u].lastEdit.holeNum)
        = clients[u].lastEdit.gross

\* ------------------------------------------------------------------------
\* The course tables (SpecCalls)
\* ------------------------------------------------------------------------
CoursesReturned == pc = "return" /\ arg.fn = "COURSES"

\* the scorecard has 18 holes numbered 1..18 in order, pars from 3 to 5 and
\* handicap ranks that are a permutation of 1..18
WellFormedCard(holes) ==
  /\ Len(holes) = 18
  /\ \A i \in 1..Len(holes) : holes[i].hole = i /\ holes[i].par \in 3..5
  /\ {holes[i].hcpRank : i \in 1..Len(holes)} = 1..18

\* C21: every course of COURSES, in the table of the app and in the table
\* of the prototype, has exactly 18 holes numbered 1..18 in order, each par
\* between 3 and 5, and handicap ranks forming a permutation of 1..18.
C21_CoursesWellFormed ==
  CoursesReturned => WellFormedCard(ret.app.holes) /\ WellFormedCard(ret.proto.holes)

\* the scorecard of day 3 has been read: its first hole is a par 5 ranked 15
C21_Witness ==
  /\ CoursesReturned
  /\ arg.day = 3
  /\ ret.app.holes[1] = [hole |-> 1, par |-> 5, hcpRank |-> 15]
  /\ ret.proto.holes[18] = [hole |-> 18, par |-> 4, hcpRank |-> 4]

\* ------------------------------------------------------------------------
\* Strokes over a full round (SpecCalls)
\* ------------------------------------------------------------------------
RoundReturned == pc = "return" /\ arg.fn = "netScore"

\* f[1] + ... + f[Len(f)]
RECURSIVE SumSeq(_, _)
SumSeq(f, n) == IF n = 0 THEN 0 ELSE f[n] + SumSeq(f, n - 1)

RoundGrossTotal == SumSeq(arg.gross, NumHoles)

RoundNetTotal == SumSeq([i \in 1..NumHoles |-> ret.nets[i][1]], NumHoles)

\* C30: on each of the three courses and for every course handicap from 0
\* up, the strokes received over the 18 holes add up to the course handicap,
\* and the net total of a full round is the gross total minus the handicap.
C30_RoundStrokes ==
  RoundReturned =>
    /\ SumSeq(ret.strokes, NumHoles) = arg.courseHcp
    /\ RoundNetTotal = RoundGrossTotal - arg.courseHcp

\* a round by a 25 handicap: one stroke on every hole and a second one on
\* the seven hardest
C30_Witness ==
  /\ RoundReturned
  /\ arg.courseHcp = 25
  /\ {i \in 1..NumHoles : ret.strokes[i] = 2} =
       {i \in 1..NumHoles : COURSES[arg.day].holes[i].hcpRank <= 7}
  /\ \A i \in 1..NumHoles : ret.strokes[i] \in {1, 2}

\* ------------------------------------------------------------------------
\* Shape of the statuses and points per match (SpecCalls)
\* ------------------------------------------------------------------------
\* tied exactly when nobody leads, and a leader is one of the two sides
LeaderShape(st, sideA, sideB) ==
  /\ st.isTied <=> st.leaderSideId = NullId
  /\ st.leaderSideId # NullId => st.leaderSideId \in {sideA.id, sideB.id}

TallyShape(st) == st.aHoles + st.bHoles <= st.played /\ st.played <= 18

\* C27: in every status matchStatusFromHoles or
\* stablefordTotalsStatusFromHoles returns, isTied is true exactly when
\* leaderSideId is null, a leaderSideId that is not null is the id of one of
\* the two sides, and a holes-based status has
\* aHoles + bHoles <= played <= 18.
C27_StatusShape ==
  /\ StatusReturned =>
       LeaderShape(ret.status, arg.sideA, arg.sideB) /\ TallyShape(ret.status)
  /\ (pc = "return" /\ arg.fn = "engine") =>
       /\ LeaderShape(ret.status, arg.match.sideA, arg.match.sideB)
       /\ arg.match.format # "SCRAMBLE_STABLEFORD" => TallyShape(ret.status)

\* side B leads a match in progress in which holes were halved
C27_Witness ==
  /\ StatusReturned
  /\ ~ret.status.isFinal
  /\ ~ret.status.isTied
  /\ ret.status.leaderSideId = arg.sideB.id
  /\ ret.status.aHoles + ret.status.bHoles < ret.status.played
  /\ ret.status.aHoles > 0

\* a scramble status with a leader and one without
C27_WitnessScramble ==
  /\ EngineReturned("SCRAMBLE_STABLEFORD")
  /\ ret.status.played = 18
  /\ ret.status.isTied
  /\ ret.status.leaderSideId = NullId
  /\ ret.status.aTotalPts > 0

\* the cards of the returned totals, as pairs <<day index, match index>>
CardKeys ==
  {k \in (1..3) \X (1..10) :
     /\ k[1] \in DOMAIN ret.totals.daySummaries
     /\ k[2] \in DOMAIN ret.totals.daySummaries[k[1]].matchCards}

CardAt(k) == ret.totals.daySummaries[k[1]].matchCards[k[2]]

FinalCards == {k \in CardKeys : CardAt(k).status.isFinal}

\* the points of a card over both teams, in halves
BothTeams(pts) == TeamPoints(pts, "JC") + TeamPoints(pts, "SG")

\* C28: a match between sides of the two teams contributes points that add
\* up to exactly 1 when its status is final and to 0 otherwise, so
\* totalJC + totalSG of computeTournamentTotals is the number of final
\* matches.
C28_OnePointPerFinal ==
  /\ TotalsReturned =>
       /\ \A k \in CardKeys :
            BothTeams(CardAt(k).points) = (IF k \in FinalCards THEN FullPoint ELSE NoPoint)
       /\ ret.totals.totalJC + ret.totals.totalSG = FullPoint * Cardinality(FinalCards)
  /\ (pc = "return" /\ arg.fn = "engine") =>
       BothTeams(ret.points) = (IF ret.status.isFinal THEN FullPoint ELSE NoPoint)

\* totals over final matches won by either team, final matches tied and
\* matches not final
C28_Witness ==
  /\ TotalsReturned
  /\ \E k \in FinalCards : CardAt(k).status.isTied
  /\ \E k \in FinalCards : TeamPoints(CardAt(k).points, "JC") = FullPoint
  /\ \E k \in FinalCards : TeamPoints(CardAt(k).points, "SG") = FullPoint
  /\ \E k \in CardKeys \ FinalCards : CardAt(k).status.played > 0
  /\ Cardinality(CardKeys) = 20

\* ------------------------------------------------------------------------
\* The two copies of pointsForFinalMatch (SpecCalls)
\* ------------------------------------------------------------------------
\* C29: pointsForFinalMatch of tournamentPrototype.js and pointsForFinalMatch
\* of TournamentApp.jsx return the same points on every status
\* matchStatusFromHoles or stablefordTotalsStatusFromHoles produces, a
\* scramble match level after 18 holes included.
C29_SamePoints ==
  (pc = "return" /\ arg.fn = "pointsForFinalMatch") => ret.app = ret.proto

\* ------------------------------------------------------------------------
\* Closeout on a card that goes on being played (SpecMarks)
\* ------------------------------------------------------------------------
FinalWithLeader(r) == r.status.isFinal /\ r.status.leaderSideId # NullId

\* C25: once matchStatusFromHoles reports a match final with a leader, a
\* further hole becoming played, whatever its outcome and the holes already
\* played being as they were, leaves the status final with the same
\* leaderSideId and the same points.
C25_CloseoutStable ==
  [][(pc = "card" /\ FinalWithLeader(ret)) =>
       /\ FinalWithLeader(ret')
       /\ ret'.status.leaderSideId = ret.status.leaderSideId
       /\ ret'.points = ret.points]_vars

\* a card that was final for side A and on which two more holes were then
\* played, both won by side B
C25_Witness ==
  /\ pc = "card"
  /\ edits = 2
  /\ FinalWithLeader(CardResult(arg.start, arg.sideA, arg.sideB))
  /\ ret.status.leaderSideId = arg.sideA.id
  /\ Cardinality({i \in 1..NumHoles :
                    ~arg.start[i].played /\ arg.holes[i].winnerSideId = arg.sideB.id}) = 2
  /\ ret.status.isFinal
  /\ ret.points = ("JC" :> FullPoint) @@ ("SG" :> NoPoint)

\* ------------------------------------------------------------------------
\* Late entries on a fourball card that is final (SpecPartial)
\* ------------------------------------------------------------------------
\* the step is a call of setFourballGross that enters a score under a
\* (player, hole) key unset so far
NewEntry ==
  /\ ret'.fn = "setFourballGross"
  /\ ret'.gross # None
  /\ GrossLookup(match.fourballGrossByPlayer, ret'.pid, ret'.holeNum) = None

StaysFinal == computed'.status.isFinal /\ computed'.points = computed.points

\* C26 as stated: on a Fourball-Net match whose computed status is final,
\* entering a gross score under a (player, hole) key that was unset never
\* makes the status not final and never changes the points of the two
\* teams.
C26_LateEntriesKeepFinal ==
  [][(pc = "page" /\ match.format = "FOURBALL_NET" /\ computed.status.isFinal
        /\ NewEntry) => StaysFinal]_vars

\* C26 amended: the same, for a key of a hole that was not yet played; the
\* entries there were stay as they are.
C26_LateEntriesOnUnplayed ==
  [][(pc = "page" /\ match.format = "FOURBALL_NET" /\ computed.status.isFinal
        /\ NewEntry /\ ~computed.holes[ret'.holeNum].played)
       => /\ StaysFinal
          /\ \A pid \in PlayerIdsOf(match), h \in 1..NumHoles :
               GrossLookup(match.fourballGrossByPlayer, pid, h) # None =>
                 GrossLookup(match'.fourballGrossByPlayer, pid, h)
                   = GrossLookup(match.fourballGrossByPlayer, pid, h)]_vars

\* side A had won the first ten holes; hole 11, which only side A had
\* entered, was then entered by side B, who won it: final 9&7
C26_Witness ==
  /\ pc = "page"
  /\ match.format = "FOURBALL_NET"
  /\ edits = 1
  /\ ret.fn = "setFourballGross"
  /\ ret.holeNum = 11
  /\ ret.pid \in {match.sideB.playerIds[k] : k \in DOMAIN match.sideB.playerIds}
  /\ computed.holes[11].played
  /\ computed.holes[11].winnerSideId = match.sideB.id
  /\ computed.status.isFinal
  /\ computed.status.leaderSideId = match.sideA.id
  /\ computed.status.aHoles = 10
  /\ computed.status.bHoles = 1
  /\ computed.points = ("JC" :> FullPoint) @@ ("SG" :> NoPoint)

\* ------------------------------------------------------------------------
\* subscribeTournament (SpecSubscribe)
\* ------------------------------------------------------------------------
\* a snapshot callback runs in this step
ListenerFires == pc = "subscribed" /\ clients'.pending # clients.pending
                   /\ clients'.pending \subseteq clients.pending

IsSortedBy(arr, key(_)) == \A i, j \in 1..Len(arr) : i < j => key(arr[i]) <= key(arr[j])

\* the values of arr, with their multiplicities
BagOf(arr) == [x \in {arr[i] : i \in 1..Len(arr)} |->
                Cardinality({i \in 1..Len(arr) : arr[i] = x})]

\* data is the tournament as the snapshots received so far describe it
ReflectsNewState(data) ==
  LET dayKey(d) == d.day
      noKey(m) == m.matchNo
  IN /\ clients'.base # None
     /\ data.base = clients'.base[1]
     /\ data.players = clients'.players
     /\ data.claims = clients'.claims
     /\ IsSortedBy(data.days, dayKey)
     /\ BagOf([i \in 1..Len(data.days) |-> [id |-> data.days[i].id, day |-> data.days[i].day]])
          = BagOf(clients'.days)
     /\ \A i \in 1..Len(data.days) :
          /\ IsSortedBy(data.days[i].matches, noKey)
          /\ BagOf(data.days[i].matches)
               = BagOf(SelectSeq(clients'.matches, LAMBDA m : m.day = data.days[i].day))

\* C22: once every listener has had its first snapshot and the tournament
\* has been handed to onData, each further snapshot of any of the five, the
\* one that reports the tournament document deleted included, ends in an
\* onData call with the tournament assembled from the new state: days
\* sorted by day, each with exactly the matches of its day number sorted by
\* matchNo.
C22_EveryChangeEmits ==
  [][(ListenerFires /\ clients.fired = Sources /\ ret.fn = "onData") =>
       /\ ret'.tick # ret.tick
       /\ ret'.fn = "onData"
       /\ ReflectsNewState(ret'.data)]_vars

\* ------------------------------------------------------------------------
\* Seeding and reseeding (SpecSeed)
\* ------------------------------------------------------------------------
\* the texts typed in TypeReseedText that read RESEED once trimmed, whatever the case
ReadsReseed == {"RESEED", " reseed "}

\* C23: seedTournament is not called over a tournament document that exists
\* unless the confirmation modal is open and the text typed in it is RESEED
\* up to surrounding blanks and case, whatever the order of the existence
\* check, its failure and the writes of the document by other pages.
C23_ReseedConfirmed ==
  (pc = "app" /\ ret.fn = "seedTournament" /\ ret.overExisting) =>
    ret.reseedOpen /\ ret.reseedText \in ReadsReseed

\* a reseed over the document of another owner's making, confirmed with
\* " reseed " and with the claims dropped
C23_Witness ==
  /\ pc = "app"
  /\ ret.fn = "seedTournament"
  /\ ret.overExisting
  /\ ret.reseedText = " reseed "
  /\ ~ret.keepClaims
  /\ db = Some([ownerUserId |-> ret.ownerUserId, claims |-> EmptyMap])
  /\ clients.at = "recheck"

\* C24: while the tournament document does not exist, openSeedFlow started
\* by a signed-in user whose page has done its existence check goes to
\* doSeed with preserveClaims = false, without the modal, so that
\* seedTournament gets called with that user as the owner.
C24_FirstSeed ==
  (pc = "app" /\ db = None /\ clients.fbUser # None /\ ~clients.loadingTournament
     /\ ~clients.seedBusy /\ ~clients.reseedOpen)
    => openSeedFlow_branch(clients) = "firstSeed"

====
